---- MODULE Spec2Model ----
(***************************************************************************)
(* Model of the wasbox interpreter core: instantiation (mk_instance), the  *)
(* call/return driver (Execution::prepare / Execution::run) and the inner  *)
(* instruction loop (execute, execute_branch).                             *)
(*                                                                         *)
(* One step of the model is one iteration of the loop of execute() or one  *)
(* arm of the match in run().  The variable cont holds what execute()      *)
(* handed back to run(): "exec" while the inner loop is running.           *)
(*                                                                         *)
(* Value-stack cells are modelled as integers.  All cells that occur in    *)
(* the modelled programs are in 0 .. 2^31-1, where the i32/u32/u64 views   *)
(* of a cell coincide.                                                     *)
(***************************************************************************)
EXTENDS Integers, Sequences, FiniteSets, TLC

(***************************************************************************)
(* Bounds of the model.                                                    *)
(***************************************************************************)
\* max_ticks handed to execute() by run(), scaled down from 1000000.
TickLimit == 12
\* The call-stack depth limit of the specification, scaled down from 100000.
StackDepthLimit == 3
\* Number of frames the frame_stack Vec can hold before allocation fails.
MaxFrames == StackDepthLimit + 1
\* Number of prepare() calls in one behaviour.
MaxInvocations == 2
\* Saturation point of the history counter total_ticks.
TickCap == TickLimit + 2
\* Largest argument value handed to prepare().
MaxArg == 5

WASM_PAGE_SIZE == 65536
\* The byte 'A' of the data segment of test_start_function_execution.
ByteA == 65

(***************************************************************************)
(* Values, types and signatures.                                           *)
(***************************************************************************)
I32(n) == [ty |-> "I32", v |-> n]
Unit == [ty |-> "Unit", v |-> 0]
\* Value::V128 as its low and high 64 bits.
V128(lo, hi) == [ty |-> "V128", v |-> <<lo, hi>>]

type_of(val) == val.ty

\* TypeSignature::ValueType(vt) / TypeSignature::Index(idx)
SigVT(vt) == [kind |-> "vt", vt |-> vt, idx |-> 0]
SigIdx(i) == [kind |-> "idx", vt |-> "Unit", idx |-> i]

\* Type::ValueType(vt) / Type::FunctionType(ft)
TypeVT(vt) == [kind |-> "vt", vt |-> vt, params |-> <<>>, results |-> <<>>]
TypeFT(ft) == [kind |-> "ft", vt |-> "Unit", params |-> ft.params, results |-> ft.results]

FuncType(p, r) == [params |-> p, results |-> r]

(***************************************************************************)
(* Decoded operations.  Every Op is a record of the same shape.            *)
(***************************************************************************)
MkOp(o, n, sig, st, tbl) == [op |-> o, n |-> n, sig |-> sig, st |-> st, tbl |-> tbl]
Op0(o) == MkOp(o, 0, SigVT("Unit"), "", <<>>)
Op1(o, n) == MkOp(o, n, SigVT("Unit"), "", <<>>)

Nop == Op0("Nop")
StartScope(sig, st) == MkOp("StartScope", 0, sig, st, <<>>)
EndScope(st) == MkOp("EndScope", 0, SigVT("Unit"), st, <<>>)
If == Op0("If")
Else == Op0("Else")
Br(d) == Op1("Br", d)
BrIf(d) == Op1("BrIf", d)
BrTable(tbl, default) == MkOp("BrTable", default, SigVT("Unit"), "", tbl)
Return == Op0("Return")
Call(c) == Op1("Call", c)
CallIndirect(type_idx, table_idx) ==
  MkOp("CallIndirect", table_idx, SigIdx(type_idx), "", <<>>)
Drop == Op0("Drop")
GetLocal(i) == Op1("GetLocal", i)
SetLocal(i) == Op1("SetLocal", i)
GetGlobal(g) == Op1("GetGlobal", g)
SetGlobal(g) == Op1("SetGlobal", g)
Load8Ze(offset) == Op1("Load8Ze", offset)
Store8_32(offset) == Op1("Store8_32", offset)
LoadI32(offset) == Op1("LoadI32", offset)
StoreI32(offset) == Op1("StoreI32", offset)
MemorySize == Op0("MemorySize")
MemoryGrow == Op0("MemoryGrow")
I32Const(v) == Op1("I32Const", v)
I32Add == Op0("I32Add")
I32Mul == Op0("I32Mul")

(***************************************************************************)
(* The value stack (Stack) and Value::pop_from / Value::push_to.           *)
(***************************************************************************)
Min(a, b) == IF a < b THEN a ELSE b
Front(s) == SubSeq(s, 1, Len(s) - 1)
Last(s) == s[Len(s)]

width(stack) == Len(stack)

\* Vec::truncate: no effect when the stack is already narrower.
shrink_to(stack, w) == SubSeq(stack, 1, Min(w, Len(stack)))

\* Value::pop_from(ty, stack): one cell per value, two for a V128, whose
\* first popped cell l becomes the low half and second popped cell r the high
\* half ((r << 64) | l); Unit pops a cell too.
\* Value::FuncRef(r) and Value::ExternRef(r): r is <<>> for None, the null
\* reference, and <<i>> for Some(i).
RefTypes == {"FuncRef", "ExternRef"}
Ref(ty, r) == [ty |-> ty, v |-> r]

\* The cell of the null reference.
NULL_REF == -1

\* Stack::push_ref and the reference Stack::pop_ref reads from a cell.
push_ref(r, stack) == Append(stack, IF r = <<>> THEN NULL_REF ELSE r[1])
ref_of_cell(cell) == IF cell = NULL_REF THEN <<>> ELSE <<cell>>

pop_from(ty, stack) ==
  IF Len(stack) = 0
  THEN [ok |-> FALSE, val |-> Unit, stack |-> stack]
  ELSE IF ty = "V128"
  THEN IF Len(stack) = 1
       THEN [ok |-> FALSE, val |-> Unit, stack |-> Front(stack)]
       ELSE [ok |-> TRUE,
             val |-> V128(Last(stack), Last(Front(stack))),
             stack |-> Front(Front(stack))]
  ELSE IF ty \in RefTypes
  THEN [ok |-> TRUE, val |-> Ref(ty, ref_of_cell(Last(stack))),
        stack |-> Front(stack)]
  ELSE [ok |-> TRUE,
        val |-> IF ty = "Unit" THEN Unit ELSE [ty |-> ty, v |-> Last(stack)],
        stack |-> Front(stack)]

\* Value::top_of(ty, stack): the Unit arm pops a cell, the V128 arm reads the
\* top cell twice, and the reference arms wrap the top cell in Some.
top_of(ty, stack) ==
  IF Len(stack) = 0
  THEN [ok |-> FALSE, val |-> Unit, stack |-> stack]
  ELSE IF ty = "Unit"
  THEN [ok |-> TRUE, val |-> Unit, stack |-> Front(stack)]
  ELSE IF ty = "V128"
  THEN [ok |-> TRUE, val |-> V128(Last(stack), Last(stack)), stack |-> stack]
  ELSE IF ty \in RefTypes
  THEN [ok |-> TRUE, val |-> Ref(ty, <<Last(stack)>>), stack |-> stack]
  ELSE [ok |-> TRUE, val |-> [ty |-> ty, v |-> Last(stack)], stack |-> stack]

\* Value::push_to(stack): Value::Unit pushes a zero cell, a V128 its low
\* half and then its high half.
push_to(val, stack) ==
  IF val.ty = "V128" THEN Append(Append(stack, val.v[1]), val.v[2])
  ELSE IF val.ty \in RefTypes THEN push_ref(val.v, stack)
  ELSE Append(stack, IF val.ty = "Unit" THEN 0 ELSE val.v)

RECURSIVE push_all(_, _)
push_all(vals, stack) ==
  IF vals = <<>> THEN stack
  ELSE push_all(Tail(vals), push_to(Head(vals), stack))

\* for (i, vt) in types.iter().enumerate().rev() { vals[i] = pop_from(vt)? }
\* A failed pop leaves the cells popped so far removed.
RECURSIVE pop_rev(_, _, _, _)
pop_rev(types, i, stack, acc) ==
  IF i = 0 THEN [ok |-> TRUE, vals |-> acc, stack |-> stack]
  ELSE LET r == pop_from(types[i], stack) IN
       IF ~r.ok THEN [ok |-> FALSE, vals |-> acc, stack |-> r.stack]
       ELSE pop_rev(types, i - 1, r.stack, <<r.val>> \o acc)

pop_values(types, stack) == pop_rev(types, Len(types), stack, <<>>)

(***************************************************************************)
(* Frame: control stack.                                                   *)
(***************************************************************************)
\* resolve_type(types, ts)
resolve_type(types, ts) ==
  IF ts.kind = "vt" THEN [ok |-> TRUE, ty |-> TypeVT(ts.vt)]
  ELSE IF ts.idx < Len(types)
       THEN [ok |-> TRUE, ty |-> TypeFT(types[ts.idx + 1])]
       ELSE [ok |-> FALSE, ty |-> TypeVT("Unit")]

result_width(signature) ==
  IF signature.kind = "vt"
  THEN (IF signature.vt = "Unit" THEN 0 ELSE 1)
  ELSE Len(signature.results)

\* Frame::push_control.  start_pc and entry_width are history fields: the
\* index of the StartScope that opened the scope (-1 for the function scope)
\* and the width of the value stack at that moment.  No modelled code reads
\* them.
push_control(frame, signature, scope_type) ==
  [frame EXCEPT !.control_stack =
     Append(@, [signature |-> signature,
                scope_type |-> scope_type,
                stack_width |-> width(frame.stack) + result_width(signature),
                start_pc |-> frame.pc - 1,
                entry_width |-> width(frame.stack)])]

\* The result types a control frame's signature names.
result_types(signature) ==
  IF signature.kind = "vt"
  THEN (IF signature.vt = "Unit" THEN <<>> ELSE <<signature.vt>>)
  ELSE signature.results

\* Frame::pop_control as execute() uses it: pops the control frame and reads
\* the result values its signature names from the value stack.
pop_control(frame) ==
  IF Len(frame.control_stack) = 0
  THEN [ok |-> FALSE, fault |-> "ControlStackUnderflow", frame |-> frame,
        control |-> [stack_width |-> 0], vals |-> <<>>]
  ELSE LET c == Last(frame.control_stack)
           f1 == [frame EXCEPT !.control_stack = Front(@)]
           r == pop_values(result_types(c.signature), f1.stack)
       IN [ok |-> r.ok, fault |-> "StackUnderflow",
           frame |-> [f1 EXCEPT !.stack = r.stack],
           control |-> [stack_width |-> c.stack_width], vals |-> r.vals]

(***************************************************************************)
(* The pc scans of execute_branch and of If / Else.  pc is 0-based as in   *)
(* the code; ops[pc + 1] is the op at index pc.                            *)
(***************************************************************************)
\* for i in (0..frame.pc).rev(): the nearest preceding StartScope(Loop) that
\* is not closed by an EndScope(Loop) met on the way.
RECURSIVE loop_start_scan(_, _, _, _)
loop_start_scan(ops, i, loop_depth, target_pc) ==
  IF i < 0 THEN target_pc
  ELSE LET o == ops[i + 1] IN
       IF o.op = "EndScope" /\ o.st = "Loop"
       THEN loop_start_scan(ops, i - 1, loop_depth + 1, target_pc)
       ELSE IF o.op = "StartScope" /\ o.st = "Loop"
       THEN (IF loop_depth = 0 THEN i + 1
             ELSE loop_start_scan(ops, i - 1, loop_depth - 1, target_pc))
       ELSE loop_start_scan(ops, i - 1, loop_depth, target_pc)

\* while frame.pc < ops.len(): skip to just past the EndScope met at
\* scope_depth 0.
RECURSIVE end_scan(_, _, _)
end_scan(ops, pc, scope_depth) ==
  IF pc >= Len(ops) THEN pc
  ELSE LET o == ops[pc + 1] IN
       IF o.op = "StartScope" THEN end_scan(ops, pc + 1, scope_depth + 1)
       ELSE IF o.op = "EndScope"
       THEN (IF scope_depth = 0 THEN pc + 1
             ELSE end_scan(ops, pc + 1, scope_depth - 1))
       ELSE end_scan(ops, pc + 1, scope_depth)

\* A scan that stops at the first Else or EndScope(IfElse), nested or not.
RECURSIVE if_scan_first_else(_, _, _)
if_scan_first_else(ops, pc, depth) ==
  IF pc >= Len(ops) THEN pc
  ELSE LET o == ops[pc + 1] IN
       IF o.op = "Else" THEN pc + 1
       ELSE IF o.op = "EndScope" /\ o.st = "IfElse" THEN pc
       ELSE if_scan_first_else(ops, pc + 1, depth)

\* Op::If with a zero condition.
RECURSIVE if_scan(_, _, _)
if_scan(ops, pc, depth) ==
  IF pc >= Len(ops) THEN pc
  ELSE LET o == ops[pc + 1] IN
       IF o.op = "StartScope" /\ o.st = "IfElse" THEN if_scan(ops, pc + 1, depth + 1)
       ELSE IF o.op = "Else" /\ depth = 0 THEN pc + 1
       ELSE IF o.op = "EndScope" /\ o.st = "IfElse"
       THEN (IF depth = 0 THEN pc ELSE if_scan(ops, pc + 1, depth - 1))
       ELSE if_scan(ops, pc + 1, depth)

\* Op::Else.
RECURSIVE else_scan(_, _, _)
else_scan(ops, pc, depth) ==
  IF pc >= Len(ops) THEN pc
  ELSE LET o == ops[pc + 1] IN
       IF o.op = "StartScope" /\ o.st = "IfElse" THEN else_scan(ops, pc + 1, depth + 1)
       ELSE IF o.op = "EndScope" /\ o.st = "IfElse"
       THEN (IF depth = 0 THEN pc ELSE else_scan(ops, pc + 1, depth - 1))
       ELSE else_scan(ops, pc + 1, depth)

(***************************************************************************)
(* execute_branch                                                          *)
(***************************************************************************)
\* A pop_depth that pops the target even when it is a Loop.
pop_depth_keeping_none(len, target_idx, scope_type) == len - target_idx

\* The number of control frames a branch pops: a target Loop stays.
pop_depth(len, target_idx, scope_type) ==
  IF scope_type = "Loop" THEN len - 1 - target_idx ELSE len - target_idx

\* A variant that carries a zero when the stack holds no value for the
\* target's result.
branch_values_zero_filled(signature, stack) ==
  IF signature.kind = "vt"
  THEN (IF signature.vt # "Unit"
        THEN (IF width(stack) > 0
              THEN pop_values(<<signature.vt>>, stack)
              ELSE [ok |-> TRUE, vals |-> <<[ty |-> signature.vt, v |-> 0]>>,
                    stack |-> stack])
        ELSE [ok |-> TRUE, vals |-> <<>>, stack |-> stack])
  ELSE pop_values(signature.results, stack)

\* The values a branch carries, popped from the stack.
branch_values(signature, stack) ==
  IF signature.kind = "vt"
  THEN (IF signature.vt # "Unit" /\ width(stack) > 0
        THEN pop_values(<<signature.vt>>, stack)
        ELSE [ok |-> TRUE, vals |-> <<>>, stack |-> stack])
  ELSE pop_values(signature.results, stack)

\* A branch that leaves pc one past ops.len() when the target is the
\* function scope.
branch_pc_past_end(ops, pc, target_scope_type, popped) ==
  IF target_scope_type = "Function" THEN Len(ops) + 1
  ELSE IF target_scope_type = "Loop" THEN loop_start_scan(ops, pc - 1, 0, pc)
  ELSE end_scan(ops, pc, popped - 1)

\* Where a completed branch leaves pc.
branch_pc(ops, pc, target_scope_type, popped) ==
  IF target_scope_type = "Function" THEN Len(ops)
  ELSE IF target_scope_type = "Loop" THEN loop_start_scan(ops, pc - 1, 0, pc)
  ELSE end_scan(ops, pc, popped - 1)

\* execute_branch(frame, depth); ops is frame.program.ops.  target_idx is
\* 0-based as in the code.
execute_branch(frame, ops, depth) ==
  LET cs == frame.control_stack
      len == Len(cs)
  IN IF depth >= len
     THEN [ok |-> FALSE, fault |-> "ControlStackUnderflow", frame |-> frame]
     ELSE LET target_idx == len - 1 - depth
              target == cs[target_idx + 1]
              popped == pop_depth(len, target_idx, target.scope_type)
              bv == branch_values(target.signature, frame.stack)
          IN IF ~bv.ok
             THEN [ok |-> FALSE, fault |-> "StackUnderflow",
                   frame |-> [frame EXCEPT !.stack = bv.stack]]
             ELSE [ok |-> TRUE, fault |-> "",
                   frame |-> [frame EXCEPT
                     !.control_stack = SubSeq(cs, 1, len - popped),
                     !.stack = push_all(bv.vals, shrink_to(bv.stack, target.stack_width)),
                     !.pc = branch_pc(ops, frame.pc, target.scope_type, popped)]]

(***************************************************************************)
(* decode: the instructions of a function body, as they stand in the       *)
(* module file, to a Program.  An instruction is its opcode, the block     *)
(* signature of a structured instruction, and for every other opcode the   *)
(* Op it decodes to with its immediates.                                   *)
(***************************************************************************)
RawInstr(opcode, sig, op) == [opcode |-> opcode, sig |-> sig, op |-> op]
Raw(op) == RawInstr(op.op, SigVT("Unit"), op)
RawOpcode(opcode) == RawInstr(opcode, SigVT("Unit"), Nop)
RawUnreachable == RawOpcode("Unreachable")
RawBlock(sig) == RawInstr("Block", sig, Nop)
RawLoop(sig) == RawInstr("Loop", sig, Nop)
RawIf(sig) == RawInstr("If", sig, Nop)
RawElse == RawOpcode("Else")
RawEnd == RawOpcode("End")
\* The 0xFC prefix followed by a sub-opcode.
RawFCExtension(sub) == RawInstr("FCExtension", SigVT("Unit"), Op1("Nop", sub))

\* The opcodes whose arm of decode returns DecodeError::UnimplementedOpcode.
UnimplementedOpcodes ==
  {"Try", "Catch", "Throw", "Rethrow", "ThrowRef",
   "ReturnCall", "ReturnCallIndirect", "CallRef", "ReturnCallRef",
   "Delegate", "CatchAll", "TryTable", "BrOnNull", "BrOnNonNull",
   "FCExtension", "SIMDExtension", "GCExtension", "ThreadsExtension"}

DecodeOk(prg) == [kind |-> "ok", ops |-> prg]
DecodeErr(kind) == [kind |-> kind, ops |-> <<>>]

\* The loop of decode over the rest of the stream, with the scope stack and
\* the program so far.
RECURSIVE decode_loop(_, _, _)
decode_loop(stream, scope_stack, prg) ==
  IF stream = <<>> THEN DecodeOk(prg)
  ELSE
    LET i == Head(stream)
        rest == Tail(stream)
    IN CASE i.opcode = "Unreachable" -> decode_loop(rest, scope_stack, prg)
         [] i.opcode = "Block" ->
              decode_loop(rest, Append(scope_stack, "Block"),
                          Append(prg, StartScope(i.sig, "Block")))
         [] i.opcode = "Loop" ->
              decode_loop(rest, Append(scope_stack, "Loop"),
                          Append(prg, StartScope(i.sig, "Loop")))
         [] i.opcode = "If" ->
              decode_loop(rest, Append(scope_stack, "IfElse"),
                          prg \o << StartScope(i.sig, "IfElse"), If >>)
         [] i.opcode = "Else" ->
              IF scope_stack = <<>> \/ scope_stack[Len(scope_stack)] # "IfElse"
              THEN DecodeErr("panic")
              ELSE decode_loop(rest, scope_stack, Append(prg, Else))
         [] i.opcode = "End" ->
              IF scope_stack = <<>> THEN DecodeErr("panic")
              ELSE decode_loop(rest,
                               SubSeq(scope_stack, 1, Len(scope_stack) - 1),
                               Append(prg, EndScope(scope_stack[Len(scope_stack)])))
         [] i.opcode \in UnimplementedOpcodes -> DecodeErr("UnimplementedOpcode")
         [] OTHER -> decode_loop(rest, scope_stack, Append(prg, i.op))

decode(program_stream) == decode_loop(program_stream, <<"Program">>, <<>>)

(***************************************************************************)
(* Modules.  Each is what Module::load yields for a small program: types,  *)
(* functions (type index per function), code (declared locals and decoded  *)
(* body), globals, data segments, memory limits and the start function.    *)
(* Function indices and type indices are 0-based as in the code.           *)
(***************************************************************************)
NoStart == -1

\* Data::Active with the value of its offset expression, and Data::Passive
\* with data.0, the position of its bytes in the module file.
ActiveData(offset, bytes) == [mode |-> "Active", offset |-> offset, bytes |-> bytes]
PassiveData(data0, bytes) == [mode |-> "Passive", data0 |-> data0, bytes |-> bytes]

\* Branches of every depth out of block { loop { loop { block { .. } } } },
\* if / else with branches out of both arms, and branches that carry values.
ModCtl ==
  [types |-> << FuncType(<<"I32">>, <<>>),
                FuncType(<<"I32", "I32">>, <<>>),
                FuncType(<<"I32">>, <<"I32">>),
                FuncType(<<>>, <<"I32", "I32">>) >>,
   functions |-> <<0, 1, 2, 2, 2>>,
   locals |-> << <<>>, <<>>, <<>>, <<>>, <<>> >>,
   code |-> <<
     << StartScope(SigVT("Unit"), "Block"),
        StartScope(SigVT("Unit"), "Loop"),
        StartScope(SigVT("Unit"), "Loop"),
        StartScope(SigVT("Unit"), "Block"),
        GetLocal(0),
        BrTable(<<0, 1, 2, 3, 4>>, 5),
        EndScope("Block"), EndScope("Loop"), EndScope("Loop"), EndScope("Block"),
        EndScope("Program") >>,
     << StartScope(SigVT("Unit"), "Block"),
        GetLocal(0),
        StartScope(SigVT("Unit"), "IfElse"), If,
        GetLocal(1), BrIf(1),
        Else,
        Br(0),
        EndScope("IfElse"),
        Nop,
        EndScope("Block"),
        EndScope("Program") >>,
     << StartScope(SigVT("I32"), "Block"),
        I32Const(5), I32Const(7),
        GetLocal(0), BrIf(0),
        Drop,
        EndScope("Block"),
        EndScope("Program") >>,
     << StartScope(SigVT("I32"), "Loop"),
        I32Const(5),
        GetLocal(0), BrIf(0),
        EndScope("Loop"),
        EndScope("Program") >>,
     << StartScope(SigIdx(3), "Block"),
        I32Const(1), I32Const(2),
        GetLocal(0), BrIf(0),
        EndScope("Block"),
        Drop,
        EndScope("Program") >> >>,
   globals |-> <<>>,
   data |-> <<>>,
   memories |-> <<>>,
   imports |-> <<>>,
   tables |-> <<>>,
   element_segments |-> <<>>,
   start_function |-> NoStart]

\* Calls: a loop around a call, unbounded recursion, faults in a callee, in
\* the driver's argument pops and in its result pops.
ModCall ==
  [types |-> << FuncType(<<>>, <<>>),
                FuncType(<<"I32">>, <<>>),
                FuncType(<<>>, <<"I32">>) >>,
   functions |-> <<0, 0, 0, 0, 0, 0, 1, 2, 0>>,
   locals |-> << <<>>, <<>>, <<>>, <<>>, <<>>, <<>>, <<>>, <<>>, <<>> >>,
   code |-> <<
     << EndScope("Program") >>,
     << StartScope(SigVT("Unit"), "Loop"), Call(0), Br(0), EndScope("Loop"),
        EndScope("Program") >>,
     << Call(2), EndScope("Program") >>,
     << Call(4), EndScope("Program") >>,
     << Drop, EndScope("Program") >>,
     << Call(6), EndScope("Program") >>,
     << EndScope("Program") >>,
     << EndScope("Program") >>,
     << Call(9), EndScope("Program") >> >>,
   globals |-> <<>>,
   data |-> <<>>,
   memories |-> <<>>,
   imports |-> <<>>,
   tables |-> <<>>,
   element_segments |-> <<>>,
   start_function |-> NoStart]

\* The module of test_start_function_execution: inc, get, main; (start main).
ModStart ==
  [types |-> << FuncType(<<>>, <<>>), FuncType(<<>>, <<"I32">>) >>,
   functions |-> <<0, 1, 0>>,
   locals |-> << <<>>, <<>>, <<>> >>,
   code |-> <<
     << I32Const(0), I32Const(0), Load8Ze(0), I32Const(1), I32Add, Store8_32(0),
        EndScope("Program") >>,
     << I32Const(0), Load8Ze(0), Return, EndScope("Program") >>,
     << Call(0), Call(0), Call(0), EndScope("Program") >> >>,
   globals |-> <<>>,
   data |-> << ActiveData(0, <<ByteA>>) >>,
   memories |-> << [min |-> 1, max |-> 1, has_max |-> TRUE] >>,
   imports |-> <<>>,
   tables |-> <<>>,
   element_segments |-> <<>>,
   start_function |-> 2]

\* An immutable and a mutable global, and a function that sets each.
ModGlobal ==
  [types |-> << FuncType(<<>>, <<>>), FuncType(<<>>, <<"I32">>) >>,
   functions |-> <<0, 0, 1>>,
   locals |-> << <<>>, <<>>, <<>> >>,
   code |-> <<
     << I32Const(7), SetGlobal(0), EndScope("Program") >>,
     << I32Const(8), SetGlobal(1), EndScope("Program") >>,
     << GetGlobal(0), EndScope("Program") >> >>,
   globals |-> << [ty |-> "I32", mutable |-> FALSE, init |-> 1],
                  [ty |-> "I32", mutable |-> TRUE, init |-> 2] >>,
   data |-> <<>>,
   memories |-> <<>>,
   imports |-> <<>>,
   tables |-> <<>>,
   element_segments |-> <<>>,
   start_function |-> NoStart]

\* Import::Func(idx): idx is the index the import section carries for the
\* function, which is its type index.
ImportFunc(idx) == [kind |-> "Func", idx |-> idx]
ImportMemory == [kind |-> "Memory", idx |-> 0]

\* One imported function (function index 0, type 1) and four local ones
\* (function indices 1 .. 4): the first returns 11, the second calls the
\* first, the third (param i32) calls the import, the fourth calls the
\* second with a value below on the stack.
ModImport ==
  [types |-> << FuncType(<<>>, <<>>),
                FuncType(<<"I32">>, <<>>),
                FuncType(<<>>, <<"I32">>) >>,
   functions |-> <<2, 0, 1, 0>>,
   locals |-> << <<>>, <<>>, <<>>, <<>> >>,
   code |-> <<
     << I32Const(11), EndScope("Program") >>,
     << Call(1), Drop, EndScope("Program") >>,
     << Call(0), EndScope("Program") >>,
     << I32Const(5), Call(2), Drop, EndScope("Program") >> >>,
   globals |-> <<>>,
   data |-> <<>>,
   memories |-> <<>>,
   imports |-> << ImportMemory, ImportFunc(1) >>,
   tables |-> <<>>,
   element_segments |-> <<>>,
   start_function |-> NoStart]

\* A callee with two parameters, a declared i64 local and two results, and a
\* caller that calls it with a value below the arguments.
ModFrames ==
  [types |-> << FuncType(<<"I32", "I32">>, <<"I32", "I32">>),
                FuncType(<<"I32">>, <<>>) >>,
   functions |-> <<0, 1>>,
   locals |-> << <<"I64">>, <<>> >>,
   code |-> <<
     << GetLocal(2), Drop, GetLocal(1), GetLocal(0), EndScope("Program") >>,
     << I32Const(3), GetLocal(0), I32Const(9), Call(0), Drop, Drop, Drop,
        EndScope("Program") >> >>,
   globals |-> <<>>,
   data |-> <<>>,
   memories |-> <<>>,
   imports |-> <<>>,
   tables |-> <<>>,
   element_segments |-> <<>>,
   start_function |-> NoStart]

\* Table limits (min, max) and ElementMode::Active { table_index, expr } with
\* Elements::Function(func_indices); offset is the value of expr.
Table(min) == [min |-> min, has_max |-> FALSE, max |-> 0]
ActiveElements(table_index, offset, func_indices) ==
  [mode |-> "Active", table_index |-> table_index, offset |-> offset,
   func_indices |-> func_indices]

\* The size of the funcref table of the call_indirect modules.
TableMin == 32

\* times2, times3 and dispatch(selector, arg) = call_indirect over a table
\* whose entries 0 and 1 are times2 and times3; a call_indirect that expects
\* another type, and one with an index past the table.
ModTable ==
  [types |-> << FuncType(<<"I32">>, <<"I32">>),
                FuncType(<<"I32", "I32">>, <<"I32">>) >>,
   functions |-> <<0, 0, 1, 0, 0>>,
   locals |-> << <<>>, <<>>, <<>>, <<>>, <<>> >>,
   code |-> <<
     << GetLocal(0), I32Const(2), I32Mul, EndScope("Program") >>,
     << GetLocal(0), I32Const(3), I32Mul, EndScope("Program") >>,
     << GetLocal(1), GetLocal(0), CallIndirect(0, 0), EndScope("Program") >>,
     << I32Const(4), I32Const(4), GetLocal(0), CallIndirect(1, 0),
        EndScope("Program") >>,
     << GetLocal(0), I32Const(TableMin), CallIndirect(0, 0),
        EndScope("Program") >> >>,
   globals |-> <<>>,
   data |-> <<>>,
   memories |-> <<>>,
   imports |-> <<>>,
   tables |-> << Table(TableMin) >>,
   element_segments |-> << ActiveElements(0, 0, <<0, 1>>) >>,
   start_function |-> NoStart]

\* The shape of tests/table.wasm: one imported function (function index 0),
\* three local functions of one type, times2 and times3 at function indices
\* 2 and 3, and a table whose entries 0 and 1 are times2 and times3.
ModTableImport ==
  [types |-> << FuncType(<<"I32">>, <<"I32">>) >>,
   functions |-> <<0, 0, 0>>,
   locals |-> << <<>>, <<>>, <<>> >>,
   code |-> <<
     << I32Const(7), GetLocal(0), CallIndirect(0, 0), EndScope("Program") >>,
     << GetLocal(0), I32Const(2), I32Mul, EndScope("Program") >>,
     << GetLocal(0), I32Const(3), I32Mul, EndScope("Program") >> >>,
   globals |-> <<>>,
   data |-> <<>>,
   memories |-> <<>>,
   imports |-> << ImportFunc(0) >>,
   tables |-> << Table(TableMin) >>,
   element_segments |-> << ActiveElements(0, 0, <<2, 3>>) >>,
   start_function |-> NoStart]

\* (memory 1 2) with grow(delta), size() and a grow by -1.
ModGrow ==
  [types |-> << FuncType(<<"I32">>, <<"I32">>), FuncType(<<>>, <<"I32">>) >>,
   functions |-> <<0, 1, 1>>,
   locals |-> << <<>>, <<>>, <<>> >>,
   code |-> <<
     << GetLocal(0), MemoryGrow, EndScope("Program") >>,
     << MemorySize, EndScope("Program") >>,
     << I32Const(-1), MemoryGrow, EndScope("Program") >> >>,
   globals |-> <<>>,
   data |-> <<>>,
   memories |-> << [min |-> 1, max |-> 2, has_max |-> TRUE] >>,
   imports |-> <<>>,
   tables |-> <<>>,
   element_segments |-> <<>>,
   start_function |-> NoStart]

\* (memory 1) without a maximum, an active segment "A" at address 0 and a
\* passive segment "B" whose byte sits at position 200 of the module file.
\* Loads and stores at small addresses, at the last bytes of the page, and
\* with the bases 0xFFFFFFFF (-1) and 0xFFFFFFFC (-4); a grow by 65536
\* pages and size().
ModMemory ==
  [types |-> << FuncType(<<>>, <<"I32">>), FuncType(<<>>, <<>>),
                FuncType(<<"I32">>, <<"I32">>) >>,
   functions |-> <<2, 0, 0, 0, 1, 1, 0, 0, 0, 0>>,
   locals |-> << <<>>, <<>>, <<>>, <<>>, <<>>, <<>>, <<>>, <<>>, <<>>, <<>> >>,
   code |-> <<
     << GetLocal(0), LoadI32(8), EndScope("Program") >>,
     << I32Const(-1), LoadI32(0), EndScope("Program") >>,
     << I32Const(-1), LoadI32(1), EndScope("Program") >>,
     << I32Const(65533), LoadI32(0), EndScope("Program") >>,
     << I32Const(-4), I32Const(7), StoreI32(8), EndScope("Program") >>,
     << I32Const(8), I32Const(-2), StoreI32(4), EndScope("Program") >>,
     << I32Const(-1), Load8Ze(0), EndScope("Program") >>,
     << I32Const(-1), Load8Ze(1), EndScope("Program") >>,
     << I32Const(65536), MemoryGrow, EndScope("Program") >>,
     << MemorySize, EndScope("Program") >> >>,
   globals |-> <<>>,
   data |-> << ActiveData(0, <<ByteA>>), PassiveData(200, <<66>>) >>,
   memories |-> << [min |-> 1, max |-> 0, has_max |-> FALSE] >>,
   imports |-> <<>>,
   tables |-> <<>>,
   element_segments |-> <<>>,
   start_function |-> NoStart]

\* Two functions whose bodies reach `unreachable`: before a write of 7 to the
\* mutable global, and between two constants that are to be added.
ModUnreachable ==
  [types |-> << FuncType(<<>>, <<>>), FuncType(<<>>, <<"I32">>) >>,
   functions |-> <<0, 1>>,
   locals |-> << <<>>, <<>> >>,
   code |-> <<
     decode(<< RawUnreachable, Raw(I32Const(7)), Raw(SetGlobal(0)),
               RawEnd >>).ops,
     decode(<< Raw(I32Const(1)), RawUnreachable, Raw(I32Const(2)),
               Raw(I32Add), RawEnd >>).ops >>,
   globals |-> << [ty |-> "I32", mutable |-> TRUE, init |-> 1] >>,
   data |-> <<>>,
   memories |-> <<>>,
   imports |-> <<>>,
   tables |-> <<>>,
   element_segments |-> <<>>,
   start_function |-> NoStart]

\* (func (param i32) (result i32)
\*   (block (result i32) (br_if 0 (local.get 0)) (i32.const 7))
\*   (i32.const 9) (i32.add))
ModBrIf ==
  [types |-> << FuncType(<<"I32">>, <<"I32">>) >>,
   functions |-> <<0>>,
   locals |-> << <<>> >>,
   code |-> <<
     decode(<< RawBlock(SigVT("I32")), Raw(GetLocal(0)), Raw(BrIf(0)),
               Raw(I32Const(7)), RawEnd, Raw(I32Const(9)), Raw(I32Add),
               RawEnd >>).ops >>,
   globals |-> <<>>,
   data |-> <<>>,
   memories |-> <<>>,
   imports |-> <<>>,
   tables |-> <<>>,
   element_segments |-> <<>>,
   start_function |-> NoStart]

\* Nested ifs.  Functions 0 and 1, (param i32) (result i32):
\*   (if (result i32) (local.get 0)
\*     (then (if (result i32) (i32.const c) (then (i32.const 1)) (else (i32.const 2))))
\*     (else (if (result i32) (i32.const d) (then (i32.const 3)) (else (i32.const 4)))))
\* with (c, d) = (1, 0) and (0, 1).  Function 2, (param i32): an if without
\* else around an if with else,
\*   (if (local.get 0)
\*     (then (if (i32.const 0) (then (global.set 0 (i32.const 7)))
\*                             (else (global.set 0 (i32.const 8))))))
nested_if(c, d) ==
  << Raw(GetLocal(0)), RawIf(SigVT("I32")),
       Raw(I32Const(c)), RawIf(SigVT("I32")),
         Raw(I32Const(1)), RawElse, Raw(I32Const(2)), RawEnd,
     RawElse,
       Raw(I32Const(d)), RawIf(SigVT("I32")),
         Raw(I32Const(3)), RawElse, Raw(I32Const(4)), RawEnd,
     RawEnd, RawEnd >>

ModIf ==
  [types |-> << FuncType(<<"I32">>, <<"I32">>), FuncType(<<"I32">>, <<>>) >>,
   functions |-> <<0, 0, 1>>,
   locals |-> << <<>>, <<>>, <<>> >>,
   code |-> <<
     decode(nested_if(1, 0)).ops,
     decode(nested_if(0, 1)).ops,
     decode(<< Raw(GetLocal(0)), RawIf(SigVT("Unit")),
                 Raw(I32Const(0)), RawIf(SigVT("Unit")),
                   Raw(I32Const(7)), Raw(SetGlobal(0)),
                 RawElse,
                   Raw(I32Const(8)), Raw(SetGlobal(0)),
                 RawEnd,
               RawEnd, RawEnd >>).ops >>,
   globals |-> << [ty |-> "I32", mutable |-> TRUE, init |-> 1] >>,
   data |-> <<>>,
   memories |-> <<>>,
   imports |-> <<>>,
   tables |-> <<>>,
   element_segments |-> <<>>,
   start_function |-> NoStart]

\* Functions that end with a branch to the function scope, each followed by
\* its twin that ends with Return at the same point: three results from a
\* stack that holds exactly them, two results and one result from a stack
\* with a cell underneath, and no result. The last two functions are a
\* caller without results and its callee, which faults.
ModReturn ==
  [types |-> << FuncType(<<>>, <<"I32", "I32", "I32">>),
                FuncType(<<>>, <<"I32", "I32">>),
                FuncType(<<>>, <<"I32">>),
                FuncType(<<>>, <<>>) >>,
   functions |-> <<0, 0, 1, 1, 2, 2, 3, 3, 3, 3>>,
   locals |-> << <<>>, <<>>, <<>>, <<>>, <<>>, <<>>, <<>>, <<>>, <<>>, <<>> >>,
   code |-> <<
     << I32Const(1), I32Const(2), I32Const(3), Br(0), EndScope("Program") >>,
     << I32Const(1), I32Const(2), I32Const(3), Return, EndScope("Program") >>,
     << I32Const(9), I32Const(1), I32Const(2), Br(0), EndScope("Program") >>,
     << I32Const(9), I32Const(1), I32Const(2), Return, EndScope("Program") >>,
     << I32Const(9), I32Const(5), Br(0), EndScope("Program") >>,
     << I32Const(9), I32Const(5), Return, EndScope("Program") >>,
     << I32Const(9), Br(0), EndScope("Program") >>,
     << I32Const(9), Return, EndScope("Program") >>,
     << Call(9), EndScope("Program") >>,
     << Drop, EndScope("Program") >> >>,
   globals |-> <<>>,
   data |-> <<>>,
   memories |-> <<>>,
   imports |-> <<>>,
   tables |-> <<>>,
   element_segments |-> <<>>,
   start_function |-> NoStart]

Modules == << ModCtl, ModCall, ModStart, ModGlobal, ModImport, ModFrames,
              ModTable, ModTableImport, ModGrow, ModMemory, ModUnreachable,
              ModBrIf, ModIf, ModReturn >>

\* Argument values handed to prepare().
ArgVals == 0 .. MaxArg

(***************************************************************************)
(* mk_instance                                                             *)
(***************************************************************************)
\* The decoded programs with local_types and return_types filled in.
programs(m) ==
  [i \in 1 .. Len(m.code) |->
     LET ft == m.types[m.functions[i] + 1]
     IN [ops |-> m.code[i],
         local_types |-> ft.params \o m.locals[i],
         return_types |-> ft.results]]

\* A usize (64 bits) is written as four digits in base WASM_PAGE_SIZE (2^16),
\* least significant first, so that sizes and addresses beyond 2^31 keep
\* their value.
usize(n) == << n % WASM_PAGE_SIZE, n \div WASM_PAGE_SIZE, 0, 0 >>

\* `x as usize` of an i32 x: sign extension to 64 bits.
i32_as_usize(x) ==
  << x % WASM_PAGE_SIZE, (x \div WASM_PAGE_SIZE) % WASM_PAGE_SIZE,
     IF x < 0 THEN WASM_PAGE_SIZE - 1 ELSE 0,
     IF x < 0 THEN WASM_PAGE_SIZE - 1 ELSE 0 >>

\* An i32 cell read as an unsigned 32-bit number (zero extension).
u32_as_usize(x) ==
  << x % WASM_PAGE_SIZE, (x \div WASM_PAGE_SIZE) % WASM_PAGE_SIZE, 0, 0 >>

\* `pages as usize * WASM_PAGE_SIZE` of a page count below 2^31.
pages_as_usize(pages) ==
  << 0, pages % WASM_PAGE_SIZE, pages \div WASM_PAGE_SIZE, 0 >>

\* a + b on usize: the wrapped sum and whether the addition overflowed.
usize_add(a, b) ==
  LET s1 == a[1] + b[1]
      s2 == a[2] + b[2] + (s1 \div WASM_PAGE_SIZE)
      s3 == a[3] + b[3] + (s2 \div WASM_PAGE_SIZE)
      s4 == a[4] + b[4] + (s3 \div WASM_PAGE_SIZE)
  IN [val |-> << s1 % WASM_PAGE_SIZE, s2 % WASM_PAGE_SIZE,
                 s3 % WASM_PAGE_SIZE, s4 % WASM_PAGE_SIZE >>,
      overflow |-> s4 >= WASM_PAGE_SIZE]

\* a < b and a > b on usize.
usize_lt(a, b) ==
  \E i \in 1 .. 4 : a[i] < b[i] /\ \A j \in (i + 1) .. 4 : a[j] = b[j]

usize_gt(a, b) == usize_lt(b, a)

\* `size / WASM_PAGE_SIZE` narrowed to 32 bits (`as u32`, `as i32`), read as
\* a signed cell.
page_count(size) ==
  size[2] + WASM_PAGE_SIZE *
    (size[3] - (IF 2 * size[3] >= WASM_PAGE_SIZE THEN WASM_PAGE_SIZE ELSE 0))

\* Memory: size in bytes, the optional maximum, and the bytes that were
\* written (by address); every other byte below size is zero.
VectorMemory_new(min_size, has_max, max_bounds) ==
  [size |-> min_size, has_max |-> has_max, max_bounds |-> max_bounds,
   bytes |-> <<>>]

mem_byte(mem, a) == IF a \in DOMAIN mem.bytes THEN mem.bytes[a] ELSE 0

\* dst[offset .. offset + len].copy_from_slice(bytes)
copy_from_slice(mem, offset, bytes) ==
  LET target == {usize_add(offset, usize(i - 1)).val : i \in DOMAIN bytes}
  IN [mem EXCEPT !.bytes =
        [a \in (DOMAIN @) \cup target |->
           IF a \in target
           THEN bytes[CHOOSE i \in DOMAIN bytes :
                        a = usize_add(offset, usize(i - 1)).val]
           ELSE @[a]]]

\* The loop over module.data of mk_instance: an active segment is copied to
\* the value of its offset expression, a passive segment to data.0, the
\* position of its bytes in the module file.
RECURSIVE apply_data(_, _)
apply_data(mem, data) ==
  IF data = <<>> THEN mem
  ELSE apply_data(
         copy_from_slice(mem,
                         IF Head(data).mode = "Active"
                         THEN i32_as_usize(Head(data).offset)
                         ELSE usize(Head(data).data0),
                         Head(data).bytes),
         Tail(data))

\* Memory::get_u8 and set_u8: the bounds check, then the byte.
get_u8(mem, offset) ==
  IF ~usize_lt(offset, mem.size)
  THEN [kind |-> "fault", val |-> 0]
  ELSE [kind |-> "ok", val |-> mem_byte(mem, offset)]

set_u8(mem, offset, value) ==
  IF ~usize_lt(offset, mem.size)
  THEN [kind |-> "fault", mem |-> mem]
  ELSE [kind |-> "ok", mem |-> [mem EXCEPT !.bytes = (offset :> value) @@ @]]

\* i32::from_le_bytes and i32::to_le_bytes.
from_le_bytes(b) ==
  b[1] + 256 * b[2] + 65536 * b[3]
    + 16777216 * (b[4] - (IF b[4] >= 128 THEN 256 ELSE 0))

to_le_bytes(value) ==
  << value % 256, (value \div 256) % 256, (value \div 65536) % 256,
     (value \div 16777216) % 256 >>

\* The check `offset + 4 > self.size()` of get_i32 and set_i32.  The sum
\* overflows for offsets within 4 of 2^64: a build with overflow checks
\* panics there, a build without them goes on with the wrapped sum and then
\* panics on indexing data()[offset] beyond its length.
width_check(mem, offset, overflow_checks) ==
  LET end == usize_add(offset, usize(4))
  IN IF end.overflow /\ overflow_checks THEN "panic"
     ELSE IF usize_gt(end.val, mem.size) THEN "fault"
     ELSE IF ~usize_lt(offset, mem.size) THEN "panic"
     ELSE "ok"

byte_at(mem, offset, i) == mem_byte(mem, usize_add(offset, usize(i)).val)

get_i32(mem, offset, overflow_checks) ==
  [kind |-> width_check(mem, offset, overflow_checks),
   val |-> from_le_bytes([i \in 1 .. 4 |-> byte_at(mem, offset, i - 1)])]

set_i32(mem, offset, value, overflow_checks) ==
  [kind |-> width_check(mem, offset, overflow_checks),
   mem |-> copy_from_slice(mem, offset, to_le_bytes(value))]

\* VectorMemory::grow: refused beyond max_bounds, otherwise data.resize; the
\* allocation is taken to succeed.
grow(mem, new_size) ==
  IF mem.has_max /\ usize_gt(new_size, mem.max_bounds)
  THEN [ok |-> FALSE, mem |-> mem]
  ELSE [ok |-> TRUE, mem |-> [mem EXCEPT !.size = new_size]]

\* A table element: None, or Some(Value::FuncRef(Some(func_idx))).
NoElement == [some |-> FALSE, func_idx |-> 0]
FuncRef(func_idx) == [some |-> TRUE, func_idx |-> func_idx]

\* An element segment written one entry further than its offset.
apply_elements_shifted(elements, seg) ==
  [j \in 1 .. Len(elements) |->
     IF j - 2 >= seg.offset /\ j - 2 - seg.offset < Len(seg.func_indices)
     THEN FuncRef(seg.func_indices[j - 1 - seg.offset])
     ELSE elements[j]]

\* An active element segment written into its table; entries past the end
\* of the table are skipped.
apply_elements(elements, seg) ==
  [j \in 1 .. Len(elements) |->
     IF j - 1 >= seg.offset /\ j - 1 - seg.offset < Len(seg.func_indices)
     THEN FuncRef(seg.func_indices[j - seg.offset])
     ELSE elements[j]]

RECURSIVE apply_segments(_, _)
apply_segments(tables, segs) ==
  IF segs = <<>> THEN tables
  ELSE apply_segments(
         IF Head(segs).mode = "Active" /\ Head(segs).table_index < Len(tables)
         THEN [tables EXCEPT ![Head(segs).table_index + 1].elements =
                 apply_elements(@, Head(segs))]
         ELSE tables,
         Tail(segs))

\* The tables of mk_instance(m).
mk_tables(m) ==
  apply_segments(
    [t \in 1 .. Len(m.tables) |->
       [elements |-> [j \in 1 .. m.tables[t].min |-> NoElement],
        limits |-> m.tables[t]]],
    m.element_segments)

\* The memory, globals and programs of mk_instance(m).  The start function
\* is recorded in the module and not otherwise used.
mk_instance(m) ==
  [programs |-> programs(m),
   memory |-> IF m.memories = <<>>
              THEN VectorMemory_new(usize(0), FALSE, usize(0))
              ELSE apply_data(
                     VectorMemory_new(pages_as_usize(m.memories[1].min),
                                      m.memories[1].has_max,
                                      pages_as_usize(m.memories[1].max)),
                     m.data),
   globals |-> [i \in 1 .. Len(m.globals) |-> I32(m.globals[i].init)],
   tables |-> mk_tables(m)]

\* The zero value of a local of the given type.
zero_value(ty) == IF ty = "Unit" THEN Unit ELSE [ty |-> ty, v |-> 0]

\* The Import::Func entries of the import section.
func_imports(m) == SelectSeq(m.imports, LAMBDA i : i.kind = "Func")

\* The function indices of a module are the imported functions followed by
\* the local ones.
is_imported(m, funcidx) == funcidx < Len(func_imports(m))

is_local(m, funcidx) ==
  /\ funcidx >= Len(func_imports(m))
  /\ funcidx < Len(func_imports(m)) + Len(m.functions)

\* The type of the local function with function index funcidx.
local_type(m, funcidx) == m.types[m.functions[funcidx - Len(func_imports(m)) + 1] + 1]

\* Instance::frame_for_funcidx(index, args).  err "panic": the u32 subtraction
\* index - num_imported_funcs underflows (an overflow panic, or a wrapped
\* index that is out of the bounds of module.functions), or the index is out
\* of the bounds of module.functions.
frame_for_funcidx(m, index, args) ==
  LET num_imported_funcs == Len(func_imports(m))
      funcidx == index - num_imported_funcs
  IN IF \E i \in 1 .. num_imported_funcs : func_imports(m)[i].idx = index
     THEN [ok |-> FALSE, err |-> "UnsupportedFeature"]
     ELSE IF funcidx < 0 \/ funcidx >= Len(m.functions)
     THEN [ok |-> FALSE, err |-> "panic"]
     ELSE IF \E i \in 1 .. Min(Len(m.types[m.functions[funcidx + 1] + 1].params),
                               Len(args)) :
               m.types[m.functions[funcidx + 1] + 1].params[i] # type_of(args[i])
     THEN [ok |-> FALSE, err |-> "ArgumentTypeMismatch"]
     ELSE IF funcidx >= Len(m.code) THEN [ok |-> FALSE, err |-> "FunctionNotFound"]
     ELSE LET program == programs(m)[funcidx + 1]
              \* The range args.len()..num_locals is empty when there are at
              \* least as many arguments as locals.
              remaining == IF Len(args) >= Len(program.local_types) THEN 0
                           ELSE Len(program.local_types) - Len(args)
              frame == [locals |-> args \o
                          [i \in 1 .. remaining |->
                             zero_value(program.local_types[Len(args) + i])],
                        return_types |-> program.return_types,
                        program |-> funcidx,
                        stack |-> <<>>,
                        pc |-> 0,
                        control_stack |-> <<>>]
              func_signature == IF Len(frame.return_types) = 0
                                THEN TypeVT("Unit")
                                ELSE TypeVT(frame.return_types[1])
          IN [ok |-> TRUE, err |-> "",
              frame |-> push_control(frame, func_signature, "Function")]

(***************************************************************************)
(* Module::load over the sections of a binary.  A section is its id byte,  *)
(* its declared length, the number of bytes its parser consumes and the    *)
(* number of entries it holds.                                             *)
(***************************************************************************)
Section(id, section_length, what_we_read, entries) ==
  [id |-> id, section_length |-> section_length,
   what_we_read |-> what_we_read, entries |-> entries]

SECTION_ID_CUSTOM == 0
SECTION_ID_FUNCTION == 3
SECTION_ID_CODE == 10
SECTION_ID_DATA == 11
SECTION_ID_DATA_COUNT == 12

\* SectionType::from_u8: ids 0 .. 12 are section types.
SectionType_from_u8(id) == id \in 0 .. 12

\* The section loop and the checks after it: the collections grow by every
\* section of their type, whatever came before it.  data_count is -1 for
\* None.
RECURSIVE load_sections(_, _, _, _, _)
load_sections(sections, functions, code, data, data_count) ==
  IF sections = <<>>
  THEN IF code # functions THEN "FailedToDecode"
       ELSE IF data_count # -1 /\ data_count # data THEN "FailedToDecode"
       ELSE "Ok"
  ELSE LET s == Head(sections)
           \* a custom section is skipped up to its declared end
           read == IF s.id = SECTION_ID_CUSTOM THEN s.section_length
                   ELSE s.what_we_read
       IN IF ~SectionType_from_u8(s.id) THEN "InvalidSectionType"
          ELSE IF read # s.section_length THEN "FailedToDecode"
          ELSE load_sections(
                 Tail(sections),
                 functions + (IF s.id = SECTION_ID_FUNCTION THEN s.entries ELSE 0),
                 code + (IF s.id = SECTION_ID_CODE THEN s.entries ELSE 0),
                 data + (IF s.id = SECTION_ID_DATA THEN s.entries ELSE 0),
                 IF s.id = SECTION_ID_DATA_COUNT THEN s.entries ELSE data_count)

load(sections) == load_sections(sections, 0, 0, 0, -1)

(***************************************************************************)
(* Integer division and remainder.  A 64-bit operand is four digits in     *)
(* base 2^16 (two's complement), as a usize; an i32 cell is extended to 64 *)
(* bits for the operation and the result narrowed back.                    *)
(***************************************************************************)
\* 0 - a: wrapping negation.
wrapping_neg(a) ==
  usize_add([i \in 1 .. 4 |-> WASM_PAGE_SIZE - 1 - a[i]], usize(1)).val

wrapping_sub(a, b) == usize_add(a, wrapping_neg(b)).val

\* The sign bit of a 64-bit value.
is_negative(a) == 2 * a[4] >= WASM_PAGE_SIZE

unsigned_abs(a) == IF is_negative(a) THEN wrapping_neg(a) ELSE a

\* a shifted left by one bit with `low` as the new lowest bit: the shifted
\* value and the bit shifted out.
shl1(a, low) ==
  LET s1 == 2 * a[1] + low
      s2 == 2 * a[2] + (s1 \div WASM_PAGE_SIZE)
      s3 == 2 * a[3] + (s2 \div WASM_PAGE_SIZE)
      s4 == 2 * a[4] + (s3 \div WASM_PAGE_SIZE)
  IN [val |-> << s1 % WASM_PAGE_SIZE, s2 % WASM_PAGE_SIZE,
                 s3 % WASM_PAGE_SIZE, s4 % WASM_PAGE_SIZE >>,
      out |-> s4 \div WASM_PAGE_SIZE]

\* Bit i (0 = lowest) of a.
bit_of(a, i) == (a[(i \div 16) + 1] \div (2 ^ (i % 16))) % 2

\* Unsigned division of a by b # 0, bit by bit from bit i down: the quotient
\* q and the remainder r so far.
RECURSIVE udivrem(_, _, _, _)
udivrem(a, b, i, st) ==
  IF i < 0 THEN st
  ELSE CHOOSE res \in
         { udivrem(a, b, i - 1, st2) :
             st2 \in { LET r2 == shl1(st.r, bit_of(a, i))
                       IN IF r2.out = 1 \/ ~usize_lt(r2.val, b)
                          THEN [q |-> shl1(st.q, 1).val,
                                r |-> wrapping_sub(r2.val, b)]
                          ELSE [q |-> shl1(st.q, 0).val, r |-> r2.val] } } : TRUE

udiv(a, b) == udivrem(a, b, 63, [q |-> usize(0), r |-> usize(0)])

\* u64::checked_div / checked_rem (u32 operands are zero-extended).
checked_div_u(a, b) ==
  IF b = usize(0) THEN [some |-> FALSE, val |-> usize(0)]
  ELSE [some |-> TRUE, val |-> udiv(a, b).q]

checked_rem_u(a, b) ==
  IF b = usize(0) THEN [some |-> FALSE, val |-> usize(0)]
  ELSE [some |-> TRUE, val |-> udiv(a, b).r]

\* i64::checked_div / checked_rem and, with min = i32::MIN sign-extended,
\* i32::checked_div / checked_rem: None for a zero divisor and for MIN / -1,
\* otherwise the quotient truncated towards zero and the remainder with the
\* sign of the dividend.
checked_div_s_floor(min, a, b) ==
  IF b = usize(0) \/ (a = min /\ b = i32_as_usize(-1))
  THEN [some |-> FALSE, val |-> usize(0)]
  ELSE LET d == udiv(unsigned_abs(a), unsigned_abs(b))
       IN [some |-> TRUE,
           val |-> IF is_negative(a) # is_negative(b)
                   THEN IF d.r = usize(0) THEN wrapping_neg(d.q)
                        ELSE wrapping_sub(wrapping_neg(d.q), usize(1))
                   ELSE d.q]

checked_div_s(min, a, b) ==
  IF b = usize(0) \/ (a = min /\ b = i32_as_usize(-1))
  THEN [some |-> FALSE, val |-> usize(0)]
  ELSE LET q == udiv(unsigned_abs(a), unsigned_abs(b)).q
       IN [some |-> TRUE,
           val |-> IF is_negative(a) # is_negative(b) THEN wrapping_neg(q) ELSE q]

checked_rem_s(min, a, b) ==
  IF b = usize(0) \/ (a = min /\ b = i32_as_usize(-1))
  THEN [some |-> FALSE, val |-> usize(0)]
  ELSE LET r == udiv(unsigned_abs(a), unsigned_abs(b)).r
       IN [some |-> TRUE, val |-> IF is_negative(a) THEN wrapping_neg(r) ELSE r]

\* i32::MIN and i64::MIN.
I32_MIN == i32_as_usize(-2147483647 - 1)
I64_MIN == << 0, 0, 0, WASM_PAGE_SIZE \div 2 >>
INT_MIN(ty) == IF ty = "I32" THEN I32_MIN ELSE I64_MIN

\* The low 32 bits of a 64-bit value as an i32 cell.
as_i32(a) ==
  a[1] + WASM_PAGE_SIZE *
    (a[2] - (IF 2 * a[2] >= WASM_PAGE_SIZE THEN WASM_PAGE_SIZE ELSE 0))

\* The arms Op::I32DivS .. Op::I32RemU and Op::I64DivS .. Op::I64RemU on the
\* popped operands a (first) and b (second): the fault returned, or the value
\* pushed.  An i32 cell is an integer, an i64 cell its four digits.
div_rem_arm(ty, op, a, b) ==
  LET signed == op \in {"DivS", "RemS"}
      x == IF ty = "I64" THEN a
           ELSE IF signed THEN i32_as_usize(a) ELSE u32_as_usize(a)
      y == IF ty = "I64" THEN b
           ELSE IF signed THEN i32_as_usize(b) ELSE u32_as_usize(b)
      r == CASE op = "DivS" -> checked_div_s(INT_MIN(ty), x, y)
             [] op = "DivU" -> checked_div_u(x, y)
             [] op = "RemS" -> checked_rem_s(INT_MIN(ty), x, y)
             [] op = "RemU" -> checked_rem_u(x, y)
      pushed(v) == [val |-> IF ty = "I64" THEN v ELSE as_i32(v), fault |-> ""]
      fault(f) == [val |-> IF ty = "I64" THEN usize(0) ELSE 0, fault |-> f]
  IN IF r.some THEN pushed(r.val)
     ELSE IF op \in {"DivU", "RemU"} THEN fault("IntegerDivisionByZero")
     ELSE IF y = usize(0) THEN fault("IntegerDivisionByZero")
     ELSE IF op = "DivS" THEN fault("IntegerOverflow")
     ELSE pushed(usize(0))

(***************************************************************************)
(* State.                                                                  *)
(***************************************************************************)
VARIABLES
  module,         \* index into Modules of the instantiated module
  frame_stack,    \* Execution.frame_stack
  memory,         \* Execution.memory
  globals,        \* Instance.globals (current values)
  result,         \* Execution.result
  phase,          \* "idle", "prepared", "running", "aborted"
  cont,           \* what execute() returned to run(); kind "exec" inside execute()
  ticks_used,     \* the local ticks_used of the running execute() call
  run_result,     \* what the last run() returned: "none", "Ok" or the error
  total_ticks,    \* history: instructions executed since the last prepare()
  invoked,        \* history: the function indices given to prepare()
  prep,           \* history: the last prepare(): its inputs and what it returned
  globals_before, \* history: globals at the last prepare()
  br,             \* history: the branch the last step of execute() took
  probe           \* a function of the program applied on its own: inputs and output

vars == <<module, frame_stack, memory, globals, result, phase, cont,
          ticks_used, run_result, total_ticks, invoked, prep, globals_before, br,
          probe>>

\* No function has been applied on its own.
NoProbe == [fn |-> "none", args |-> <<>>, out |-> <<>>, applied |-> FALSE]

Exec == [kind |-> "exec", idx |-> 0, fault |-> ""]
ProgramEnd == [kind |-> "ProgramEnd", idx |-> 0, fault |-> ""]
DoneReturn == [kind |-> "DoneReturn", idx |-> 0, fault |-> ""]
ContCall(c) == [kind |-> "Call", idx |-> c, fault |-> ""]
Fault(f) == [kind |-> "Fault", idx |-> 0, fault |-> f]

None == [some |-> FALSE, vals |-> <<>>]
Some(v) == [some |-> TRUE, vals |-> v]

NoControl == [signature |-> TypeVT("Unit"), scope_type |-> "", stack_width |-> 0,
              start_pc |-> 0, entry_width |-> 0]
NoFrame == [locals |-> <<>>, return_types |-> <<>>, program |-> 0, stack |-> <<>>,
            pc |-> 0, control_stack |-> <<>>]
\* kind: "none", "taken" (execute_branch returned Ok) or "fault"; n: length of
\* the control stack before; d: the branch depth; target: the target control
\* frame; before: the frame as execute_branch received it.
NoBr == [kind |-> "none", n |-> 0, d |-> 0, target |-> NoControl,
         before |-> NoFrame]

\* kind: "none" or "done"; result: "Ok", the LinkError, or "panic"; frames: the
\* frame stack as prepare() found it.
NoPrep == [kind |-> "none", funcidx |-> 0, args |-> <<>>, result |-> "",
           frames |-> <<>>]

M == Modules[module]
top_frame == frame_stack[Len(frame_stack)]
top_ops == programs(M)[top_frame.program + 1].ops

\* Execution::new(mk_instance(module), instance.memories[0].clone())
InitProgram ==
  /\ module \in 1 .. Len(Modules)
  /\ frame_stack = <<>>
  /\ memory = mk_instance(Modules[module]).memory
  /\ globals = mk_instance(Modules[module]).globals
  /\ result = None
  /\ phase = "idle"
  /\ cont = Exec
  /\ ticks_used = 0
  /\ run_result = "none"
  /\ total_ticks = 0
  /\ invoked = <<>>
  /\ prep = NoPrep
  /\ globals_before = mk_instance(Modules[module]).globals
  /\ br = NoBr

Init == InitProgram /\ probe = NoProbe

(***************************************************************************)
(* Execution::prepare and the arms of Execution::run.                      *)
(***************************************************************************)
\* The values of a type that prepare() is handed.
ValuesOf(ty) == IF ty = "I32" THEN {I32(a) : a \in ArgVals} ELSE {zero_value(ty)}

\* A value of another type than ty.
Mistyped(ty) == IF ty = "I32" THEN zero_value("I64") ELSE zero_value("I32")

Zeros(params) == [i \in 1 .. Len(params) |-> zero_value(params[i])]

\* Argument lists for a function with the given parameter types: the well
\* typed ones, one that is too short, one that is too long, and the ones with
\* one argument of another type.
ArgSeqs(params) ==
  {a \in [1 .. Len(params) -> UNION {ValuesOf(params[i]) : i \in 1 .. Len(params)}] :
     \A i \in 1 .. Len(params) : a[i] \in ValuesOf(params[i])}
  \cup {Front(Zeros(params)) : i \in 1 .. Min(Len(params), 1)}
  \cup {Append(Zeros(params), I32(0))}
  \cup {[Zeros(params) EXCEPT ![i] = Mistyped(params[i])] : i \in 1 .. Len(params)}

\* The argument lists of the invocations dispatch(0, 21) and dispatch(1, 10).
ScenarioArgs(m, funcidx) ==
  IF m = ModTable /\ funcidx = 2
  THEN {<<I32(0), I32(21)>>, <<I32(1), I32(10)>>}
  ELSE {}

\* The process ends: a panic, or an allocation that fails.
Aborts ==
  /\ phase' = "aborted"
  /\ UNCHANGED <<module, probe, frame_stack, memory, globals, result, cont,
                 ticks_used, run_result, total_ticks, invoked, prep,
                 globals_before, br>>

\* prepare(funcidx, args)
Prepare(funcidx, args) ==
  /\ phase = "idle"
  /\ Len(invoked) < MaxInvocations
  /\ Len(frame_stack) < MaxFrames
  /\ LET r == frame_for_funcidx(M, funcidx, args)
     IN /\ IF r.ok
           THEN /\ frame_stack' = Append(frame_stack, r.frame)
                /\ phase' = "prepared"
           ELSE /\ frame_stack' = frame_stack
                /\ phase' = IF r.err = "panic" THEN "aborted" ELSE "idle"
        /\ prep' = [kind |-> "done", funcidx |-> funcidx, args |-> args,
                    result |-> IF r.ok THEN "Ok" ELSE r.err,
                    frames |-> frame_stack]
  /\ invoked' = Append(invoked, funcidx)
  /\ globals_before' = globals
  /\ total_ticks' = 0
  /\ br' = NoBr
  /\ UNCHANGED <<module, probe, memory, globals, result, cont, ticks_used, run_result>>

\* run(): entry, the first call of execute().
Run ==
  /\ phase = "prepared"
  /\ phase' = "running"
  /\ cont' = Exec
  /\ ticks_used' = 0
  /\ run_result' = "none"
  /\ UNCHANGED <<module, probe, frame_stack, memory, globals, result, total_ticks,
                 invoked, prep, globals_before, br>>

SetTop(f) == [frame_stack EXCEPT ![Len(frame_stack)] = f]

\* run() returns: the frame stack is left as fs.
Returns(fs, res, rr) ==
  /\ frame_stack' = fs
  /\ result' = res
  /\ run_result' = rr
  /\ phase' = "idle"
  /\ cont' = Exec
  /\ ticks_used' = 0
  /\ br' = NoBr
  /\ UNCHANGED <<module, probe, memory, globals, total_ticks, invoked, prep, globals_before>>

\* run() loops: execute() is called again on the top of fs.
Continues(fs) ==
  /\ frame_stack' = fs
  /\ cont' = Exec
  /\ ticks_used' = 0
  /\ br' = NoBr
  /\ UNCHANGED <<module, probe, memory, globals, result, phase, run_result,
                 total_ticks, invoked, prep, globals_before>>

\* Ok(Continuation::ProgramEnd) | Ok(Continuation::DoneReturn)
RunDone ==
  /\ phase = "running"
  /\ cont.kind \in {"ProgramEnd", "DoneReturn"}
  /\ LET r == pop_values(top_frame.return_types, top_frame.stack)
     IN IF ~r.ok
        THEN Returns(SetTop([top_frame EXCEPT !.stack = r.stack]), result,
                     "StackUnderflow")
        ELSE LET rest == Front(frame_stack)
             IN IF rest # <<>>
                THEN Continues([rest EXCEPT ![Len(rest)].stack = push_all(r.vals, @)])
                ELSE Returns(rest, Some(r.vals), "Ok")

\* The Call arm reaches self.frame_stack.push(frame).
CallPushes ==
  /\ cont.idx < Len(M.functions)
  /\ pop_values(M.types[M.functions[cont.idx + 1] + 1].params, top_frame.stack).ok
  /\ frame_for_funcidx(M, cont.idx,
       pop_values(M.types[M.functions[cont.idx + 1] + 1].params,
                  top_frame.stack).vals).ok

\* Ok(Continuation::Call(funcidx))
RunCall ==
  /\ phase = "running"
  /\ cont.kind = "Call"
  /\ ~(CallPushes /\ Len(frame_stack) >= MaxFrames)
  /\ IF cont.idx >= Len(M.functions)
     THEN Returns(frame_stack, result, "GlobalIndexOutOfBounds")
     ELSE LET func_type == M.types[M.functions[cont.idx + 1] + 1]
              r == pop_values(func_type.params, top_frame.stack)
              caller == [top_frame EXCEPT !.stack = r.stack]
          IN IF ~r.ok
             THEN Returns(SetTop(caller), result, "StackUnderflow")
             ELSE LET f == frame_for_funcidx(M, cont.idx, r.vals)
                  IN IF ~f.ok /\ f.err = "panic" THEN Aborts
                     ELSE IF ~f.ok
                     THEN Returns(SetTop(caller), result, f.err)
                     ELSE Continues(Append(SetTop(caller), f.frame))

\* Ok(Continuation::Call(funcidx)) when frame_stack cannot grow: the
\* allocation in Vec::push fails and the process aborts.
RunCallExhausted ==
  /\ phase = "running"
  /\ cont.kind = "Call"
  /\ CallPushes /\ Len(frame_stack) >= MaxFrames
  /\ Aborts

\* An Err arm that also forgets the result of the last successful run.
RunFaultClearsResult ==
  /\ phase = "running"
  /\ cont.kind = "Fault"
  /\ Returns(Front(frame_stack), None, cont.fault)

\* Err(fault)
RunFault ==
  /\ phase = "running"
  /\ cont.kind = "Fault"
  /\ Returns(Front(frame_stack), result, cont.fault)

(***************************************************************************)
(* execute(): one iteration of its loop per step.                          *)
(***************************************************************************)
InExecute == phase = "running" /\ cont.kind = "exec"

\* if pc >= frame.program.ops.len() { return Ok(Continuation::ProgramEnd) }
ExecProgramEnd ==
  /\ InExecute
  /\ top_frame.pc >= Len(top_ops)
  /\ cont' = ProgramEnd
  /\ br' = NoBr
  /\ UNCHANGED <<module, probe, frame_stack, memory, globals, result, phase,
                 ticks_used, run_result, total_ticks, invoked, prep, globals_before>>

\* ticks_used += 1; if ticks_used >= max_ticks { return Err(OutOfTicks) }
ExecOutOfTicks ==
  /\ InExecute
  /\ top_frame.pc < Len(top_ops)
  /\ ticks_used + 1 >= TickLimit
  /\ ticks_used' = ticks_used + 1
  /\ cont' = Fault("OutOfTicks")
  /\ br' = NoBr
  /\ UNCHANGED <<module, probe, frame_stack, memory, globals, result, phase,
                 run_result, total_ticks, invoked, prep, globals_before>>

\* The op at pc is o and there is a tick left for it.
Ready(o) ==
  /\ InExecute
  /\ top_frame.pc < Len(top_ops)
  /\ ticks_used + 1 < TickLimit
  /\ top_ops[top_frame.pc + 1].op = o

cur == top_ops[top_frame.pc + 1]

\* The top frame after frame.pc += 1.
fetched == [top_frame EXCEPT !.pc = @ + 1]

\* The op leaves the top frame as f and execute() goes on (c = Exec) or
\* returns c.
Step(f, c, g, m, b) ==
  /\ frame_stack' = SetTop(f)
  /\ cont' = c
  /\ globals' = g
  /\ memory' = m
  /\ br' = b
  /\ ticks_used' = ticks_used + 1
  /\ total_ticks' = Min(total_ticks + 1, TickCap)
  /\ UNCHANGED <<module, probe, result, phase, run_result, invoked, prep, globals_before>>

Goes(f) == Step(f, Exec, globals, memory, NoBr)
Faults(f, fault) == Step(f, Fault(fault), globals, memory, NoBr)

\* Stack::pop_u32 / pop_i32 / pop_u64 on the frame's stack.
pop_cell(f) ==
  IF Len(f.stack) = 0
  THEN [ok |-> FALSE, v |-> 0, frame |-> f]
  ELSE [ok |-> TRUE, v |-> Last(f.stack), frame |-> [f EXCEPT !.stack = Front(@)]]

push_cell(f, v) == [f EXCEPT !.stack = Append(@, v)]

ExecNop == Ready("Nop") /\ Goes(fetched)

ExecStartScope ==
  /\ Ready("StartScope")
  /\ LET r == resolve_type(M.types, cur.sig)
     IN IF r.ok THEN Goes(push_control(fetched, r.ty, cur.st))
        ELSE Faults(fetched, "UnresolvableTypeIndex")

ExecEndScope ==
  /\ Ready("EndScope")
  /\ IF cur.st = "Program"
     THEN Step(fetched, DoneReturn, globals, memory, NoBr)
     ELSE LET r == pop_control(fetched)
          IN IF ~r.ok THEN Faults(r.frame, r.fault)
             ELSE Goes([r.frame EXCEPT !.stack =
                          push_all(r.vals, shrink_to(@, r.control.stack_width))])

ExecIf ==
  /\ Ready("If")
  /\ LET c == pop_cell(fetched)
     IN IF ~c.ok THEN Faults(c.frame, "StackUnderflow")
        ELSE IF c.v = 0
        THEN Goes([c.frame EXCEPT !.pc = if_scan(top_ops, @, 0)])
        ELSE Goes(c.frame)

ExecElse ==
  /\ Ready("Else")
  /\ Goes([fetched EXCEPT !.pc = else_scan(top_ops, @, 0)])

\* execute_branch(frame, depth)?; continue
Branch(f, depth) ==
  LET r == execute_branch(f, top_ops, depth)
      n == Len(f.control_stack)
  IN IF r.ok
     THEN Step(r.frame, Exec, globals, memory,
               [kind |-> "taken", n |-> n, d |-> depth,
                target |-> f.control_stack[n - depth],
                before |-> f])
     ELSE Step(r.frame, Fault(r.fault), globals, memory,
               [kind |-> "fault", n |-> n, d |-> depth,
                target |-> NoControl,
                before |-> f])

ExecBr == Ready("Br") /\ Branch(fetched, cur.n)

ExecBrIf ==
  /\ Ready("BrIf")
  /\ LET c == pop_cell(fetched)
     IN IF ~c.ok THEN Faults(c.frame, "StackUnderflow")
        ELSE IF c.v # 0 THEN Branch(c.frame, cur.n)
        ELSE Goes(c.frame)

ExecBrTable ==
  /\ Ready("BrTable")
  /\ LET c == pop_cell(fetched)
     IN IF ~c.ok THEN Faults(c.frame, "StackUnderflow")
        ELSE Branch(c.frame,
                    IF c.v < Len(cur.tbl) THEN cur.tbl[c.v + 1] ELSE cur.n)

ExecReturn == Ready("Return") /\ Step(fetched, DoneReturn, globals, memory, NoBr)

ExecCall == Ready("Call") /\ Step(fetched, ContCall(cur.n), globals, memory, NoBr)

\* Op::CallIndirect(type_idx, table_idx).  A negative cell is an index of
\* 2^31 or more and is past every table.
ExecCallIndirect ==
  /\ Ready("CallIndirect")
  /\ LET c == pop_cell(fetched)
         tables == mk_instance(M).tables
         type_idx == cur.sig.idx
         table_idx == cur.n
     IN IF ~c.ok THEN Faults(c.frame, "StackUnderflow")
        ELSE IF table_idx >= Len(tables) THEN Faults(c.frame, "UndefinedElement")
        ELSE IF c.v < 0 \/ c.v >= Len(tables[table_idx + 1].elements)
        THEN Faults(c.frame, "UndefinedElement")
        ELSE LET e == tables[table_idx + 1].elements[c.v + 1]
             IN IF ~e.some THEN Faults(c.frame, "UninitializedElement")
                ELSE IF e.func_idx >= Len(M.functions)
                THEN Faults(c.frame, "UndefinedElement")
                ELSE IF M.functions[e.func_idx + 1] >= Len(M.types)
                        \/ type_idx >= Len(M.types)
                THEN Faults(c.frame, "UnresolvableTypeIndex")
                ELSE IF M.types[type_idx + 1] # M.types[M.functions[e.func_idx + 1] + 1]
                THEN Faults(c.frame, "IndirectCallTypeMismatch")
                ELSE Step(c.frame, ContCall(e.func_idx), globals, memory, NoBr)

ExecDrop ==
  /\ Ready("Drop")
  /\ LET c == pop_cell(fetched)
     IN IF ~c.ok THEN Faults(c.frame, "StackUnderflow") ELSE Goes(c.frame)

\* Frame::push_local_to_stack
ExecGetLocal ==
  /\ Ready("GetLocal")
  /\ IF cur.n >= Len(fetched.locals)
     THEN Faults(fetched, "LocalIndexOutOfBounds")
     ELSE Goes([fetched EXCEPT !.stack = push_to(fetched.locals[cur.n + 1], @)])

ExecGetGlobal ==
  /\ Ready("GetGlobal")
  /\ IF cur.n >= Len(globals)
     THEN Faults(fetched, "GlobalIndexOutOfBounds")
     ELSE Goes([fetched EXCEPT !.stack = push_to(globals[cur.n + 1], @)])

ExecSetGlobal ==
  /\ Ready("SetGlobal")
  /\ IF cur.n >= Len(globals)
     THEN Faults(fetched, "GlobalIndexOutOfBounds")
     ELSE LET r == pop_from(M.globals[cur.n + 1].ty, fetched.stack)
          IN IF ~r.ok THEN Faults(fetched, "StackUnderflow")
             ELSE Step([fetched EXCEPT !.stack = r.stack], Exec,
                       [globals EXCEPT ![cur.n + 1] = r.val], memory, NoBr)

\* adjust_memarg: `stack.pop_i32()? as usize`, then memarg.offset + base_addr.
\* The sum overflows when the base is negative and the offset reaches past
\* 2^64: a build with overflow checks panics, one without wraps around.
adjust_memarg(base, offset, overflow_checks) ==
  LET sum == usize_add(usize(offset), i32_as_usize(base))
  IN [panic |-> sum.overflow /\ overflow_checks, addr |-> sum.val]

\* Op::Load8Ze: Memory::get_u8
ExecLoad8Ze ==
  /\ Ready("Load8Ze")
  /\ \E overflow_checks \in BOOLEAN :
     \E c \in {pop_cell(fetched)} :
     \E a \in {adjust_memarg(c.v, cur.n, overflow_checks)} :
     \E r \in {get_u8(memory, a.addr)} :
       IF ~c.ok THEN Faults(c.frame, "StackUnderflow")
       ELSE IF a.panic THEN Aborts
       ELSE IF r.kind = "fault" THEN Faults(c.frame, "MemoryOutOfBounds")
       ELSE Goes(push_cell(c.frame, r.val))

\* Op::Store8_32: the value narrowed to u8, then Memory::set_u8
ExecStore8_32 ==
  /\ Ready("Store8_32")
  /\ \E overflow_checks \in BOOLEAN :
     \E c \in {pop_cell(fetched)} :
     \E b \in {pop_cell(c.frame)} :
     \E a \in {adjust_memarg(b.v, cur.n, overflow_checks)} :
     \E r \in {set_u8(memory, a.addr, c.v % 256)} :
       IF ~c.ok THEN Faults(c.frame, "StackUnderflow")
       ELSE IF ~b.ok THEN Faults(b.frame, "StackUnderflow")
       ELSE IF a.panic THEN Aborts
       ELSE IF r.kind = "fault" THEN Faults(b.frame, "MemoryOutOfBounds")
       ELSE Step(b.frame, Exec, globals, r.mem, NoBr)

\* Op::LoadI32: adjust_memarg, then Memory::get_i32
ExecLoadI32 ==
  /\ Ready("LoadI32")
  /\ \E overflow_checks \in BOOLEAN :
     \E c \in {pop_cell(fetched)} :
     \E a \in {adjust_memarg(c.v, cur.n, overflow_checks)} :
     \E r \in {get_i32(memory, a.addr, overflow_checks)} :
       IF ~c.ok THEN Faults(c.frame, "StackUnderflow")
       ELSE IF a.panic \/ r.kind = "panic" THEN Aborts
       ELSE IF r.kind = "fault" THEN Faults(c.frame, "MemoryOutOfBounds")
       ELSE Goes(push_cell(c.frame, r.val))

\* Op::StoreI32: the value, then adjust_memarg, then Memory::set_i32
ExecStoreI32 ==
  /\ Ready("StoreI32")
  /\ \E overflow_checks \in BOOLEAN :
     \E c \in {pop_cell(fetched)} :
     \E b \in {pop_cell(c.frame)} :
     \E a \in {adjust_memarg(b.v, cur.n, overflow_checks)} :
     \E r \in {set_i32(memory, a.addr, c.v, overflow_checks)} :
       IF ~c.ok THEN Faults(c.frame, "StackUnderflow")
       ELSE IF ~b.ok THEN Faults(b.frame, "StackUnderflow")
       ELSE IF a.panic \/ r.kind = "panic" THEN Aborts
       ELSE IF r.kind = "fault" THEN Faults(b.frame, "MemoryOutOfBounds")
       ELSE Step(b.frame, Exec, globals, r.mem, NoBr)

\* Op::MemorySize: push_u32(size / WASM_PAGE_SIZE)
ExecMemorySize ==
  /\ Ready("MemorySize")
  /\ Goes(push_cell(fetched, page_count(memory.size)))

\* Op::MemoryGrow
ExecMemoryGrow ==
  /\ Ready("MemoryGrow")
  /\ LET c == pop_cell(fetched)
         delta == c.v
         old_page_count == page_count(memory.size)
         new_size == usize_add(memory.size, pages_as_usize(delta)).val
         r == grow(memory, new_size)
     IN IF ~c.ok THEN Faults(c.frame, "StackUnderflow")
        ELSE IF delta < 0 THEN Goes(push_cell(c.frame, -1))
        ELSE IF r.ok
             THEN Step(push_cell(c.frame, old_page_count), Exec, globals,
                       r.mem, NoBr)
             ELSE Goes(push_cell(c.frame, -1))

ExecI32Const == Ready("I32Const") /\ Goes(push_cell(fetched, cur.n))

\* wrapping_add; the sums of the modelled programs stay below 2^31.
ExecI32Add ==
  /\ Ready("I32Add")
  /\ LET b == pop_cell(fetched)
         a == pop_cell(b.frame)
     IN IF ~b.ok THEN Faults(b.frame, "StackUnderflow")
        ELSE IF ~a.ok THEN Faults(a.frame, "StackUnderflow")
        ELSE Goes(push_cell(a.frame, a.v + b.v))

\* wrapping_mul; the products of the modelled programs stay below 2^31.
ExecI32Mul ==
  /\ Ready("I32Mul")
  /\ LET b == pop_cell(fetched)
         a == pop_cell(b.frame)
     IN IF ~b.ok THEN Faults(b.frame, "StackUnderflow")
        ELSE IF ~a.ok THEN Faults(a.frame, "StackUnderflow")
        ELSE Goes(push_cell(a.frame, a.v * b.v))

\* prepare() is given every function index of the module and the first
\* index past them.
PrepareArgs(funcidx) ==
  IF is_local(M, funcidx)
  THEN ArgSeqs(local_type(M, funcidx).params) \cup ScenarioArgs(M, funcidx)
  ELSE {<<>>}

Next ==
  \/ \E funcidx \in 0 .. Len(func_imports(M)) + Len(M.functions) :
       \E args \in PrepareArgs(funcidx) :
         Prepare(funcidx, args)
  \/ Run
  \/ RunDone
  \/ RunCall
  \/ RunCallExhausted
  \/ RunFault
  \/ ExecProgramEnd
  \/ ExecOutOfTicks
  \/ ExecNop
  \/ ExecStartScope
  \/ ExecEndScope
  \/ ExecIf
  \/ ExecElse
  \/ ExecBr
  \/ ExecBrIf
  \/ ExecBrTable
  \/ ExecReturn
  \/ ExecCall
  \/ ExecCallIndirect
  \/ ExecDrop
  \/ ExecGetLocal
  \/ ExecGetGlobal
  \/ ExecSetGlobal
  \/ ExecLoad8Ze
  \/ ExecStore8_32
  \/ ExecLoadI32
  \/ ExecStoreI32
  \/ ExecMemorySize
  \/ ExecMemoryGrow
  \/ ExecI32Const
  \/ ExecI32Add
  \/ ExecI32Mul

Spec == Init /\ [][Next]_vars

\* run() is a plain loop: a step that can be taken is taken.
FairSpec == Spec /\ WF_vars(Next)

(***************************************************************************)
(* module/leb128.rs and lib.rs: the LEB128 reader over the bytes left in   *)
(* the buffer. A u32 is two 16-bit digits, least significant first; an     *)
(* i32 is an integer. A read gives the value and the bytes left, or the    *)
(* error.                                                                  *)
(***************************************************************************)
u32(n) == << n % WASM_PAGE_SIZE, n \div WASM_PAGE_SIZE >>

RECURSIVE bitor(_, _, _)
bitor(a, b, bits) ==
  IF bits = 0 THEN 0
  ELSE (IF a % 2 = 1 \/ b % 2 = 1 THEN 1 ELSE 0)
         + 2 * bitor(a \div 2, b \div 2, bits - 1)

\* result | x
u32_or(a, b) == << bitor(a[1], b[1], 16), bitor(a[2], b[2], 16) >>

\* ((byte & 0x7F) as u32) << shift, the bits shifted past bit 31 dropped.
u32_shl(group, shift) ==
  IF shift < 16
  THEN << (group * 2 ^ shift) % WASM_PAGE_SIZE,
          (group * 2 ^ shift) \div WASM_PAGE_SIZE >>
  ELSE << 0, (group * 2 ^ (shift - 16)) % WASM_PAGE_SIZE >>

\* LEB128Reader::new: the slice, the position of the cursor and the length;
\* remaining_bytes is what read_byte has left to read.
LEB128Reader_new(slice, start_position) == <<slice, start_position, Len(slice)>>
remaining_bytes(reader) == SubSeq(reader[1], reader[2] + 1, reader[3])

ReadOk(val, rest) == [kind |-> "ok", val |-> val, rest |-> rest]
ReadErr(kind) == [kind |-> kind, val |-> u32(0), rest |-> <<>>]

\* The loop of load_imm_varuint32 without the check of the final byte.
RECURSIVE varuint32_loop_unchecked(_, _, _, _)
varuint32_loop_unchecked(bytes, res, shift, byte_count) ==
  IF bytes = <<>>
  THEN ReadErr("unexpected end of section or function")
  ELSE LET byte == Head(bytes)
           acc == u32_or(res, u32_shl(byte % 128, shift))
       IN IF byte_count + 1 > 5
          THEN ReadErr("integer representation too long")
          ELSE IF byte < 128
          THEN ReadOk(acc, Tail(bytes))
          ELSE IF shift + 7 >= 32
          THEN ReadErr("integer representation too long")
          ELSE varuint32_loop_unchecked(Tail(bytes), acc, shift + 7,
                                        byte_count + 1)

\* The loop of load_imm_varuint32: read_byte, count it, or the seven data
\* bits into the result, stop at a byte without the continuation bit.
RECURSIVE varuint32_loop(_, _, _, _)
varuint32_loop(bytes, res, shift, byte_count) ==
  IF bytes = <<>>
  THEN ReadErr("unexpected end of section or function")
  ELSE LET byte == Head(bytes)
           acc == u32_or(res, u32_shl(byte % 128, shift))
           remaining_bits == 32 - shift
       IN IF byte_count + 1 > 5
          THEN ReadErr("integer representation too long")
          ELSE IF byte < 128
          THEN IF remaining_bits < 7 /\ byte % 128 > 2 ^ remaining_bits - 1
               THEN ReadErr("integer too large")
               ELSE ReadOk(acc, Tail(bytes))
          ELSE IF shift + 7 >= 32
          THEN ReadErr("integer representation too long")
          ELSE varuint32_loop(Tail(bytes), acc, shift + 7, byte_count + 1)

load_imm_varuint32(bytes) == varuint32_loop(bytes, u32(0), 0, 0)

\* value as i32
u32_as_i32(d) ==
  IF 2 * d[2] >= WASM_PAGE_SIZE
  THEN (d[2] - WASM_PAGE_SIZE) * WASM_PAGE_SIZE + d[1]
  ELSE d[2] * WASM_PAGE_SIZE + d[1]

\* The u32 read, as i32; val is then an integer.
load_imm_varint32(bytes) ==
  LET r == load_imm_varuint32(bytes)
  IN IF r.kind = "ok" THEN ReadOk(u32_as_i32(r.val), r.rest)
     ELSE [r EXCEPT !.val = 0]

\* value.unsigned_abs() of an i32, as u32
i32_unsigned_abs(v) ==
  IF v >= 0 THEN u32(v)
  ELSE IF v = -2147483647 - 1 THEN << 0, WASM_PAGE_SIZE \div 2 >>
  ELSE u32(-v)

\* ValueType::from_u32
from_u32(value) ==
  LET types == [n \in {64, 112, 111, 127, 126, 125, 124, 123} |->
                  CASE n = 64 -> "Unit" [] n = 112 -> "FuncRef"
                    [] n = 111 -> "ExternRef" [] n = 127 -> "I32"
                    [] n = 126 -> "I64" [] n = 125 -> "F32"
                    [] n = 124 -> "F64" [] n = 123 -> "V128"]
  IN IF value[2] = 0 /\ value[1] \in DOMAIN types
     THEN [ok |-> TRUE, vt |-> types[value[1]]]
     ELSE [ok |-> FALSE, vt |-> "Unit"]

\* ValueType::read_signature; val is the TypeSignature.
read_signature(bytes) ==
  LET r == load_imm_varint32(bytes)
      value == r.val
      neg == from_u32(i32_unsigned_abs(value))
      vt == from_u32(u32(value))
  IN IF r.kind # "ok" THEN [r EXCEPT !.val = SigVT("Unit")]
     ELSE IF value = 64 THEN ReadOk(SigVT("Unit"), r.rest)
     ELSE IF value < 0
     THEN IF neg.ok THEN ReadOk(SigVT(neg.vt), r.rest)
          ELSE [ReadErr("InvalidSignature") EXCEPT !.val = SigVT("Unit")]
     ELSE IF vt.ok THEN ReadOk(SigVT(vt.vt), r.rest)
     ELSE ReadOk(SigIdx(value), r.rest)

\* Frame::set_local_from_stack(local_index, pop) on a frame with the given
\* locals and value stack; local_types is frame.program.local_types.
set_local_from_stack(locals, stack, local_types, local_index, pop) ==
  IF local_index >= Len(locals)
  THEN [fault |-> "LocalIndexOutOfBounds", locals |-> locals, stack |-> stack]
  ELSE LET type_of_local == local_types[local_index + 1]
           r == IF pop THEN pop_from(type_of_local, stack)
                ELSE top_of(type_of_local, stack)
       IN IF ~r.ok
          THEN [fault |-> "StackUnderflow", locals |-> locals, stack |-> r.stack]
          ELSE [fault |-> "",
                locals |-> [locals EXCEPT ![local_index + 1] = r.val],
                stack |-> r.stack]

(***************************************************************************)
(* exec.rs exec_fragment and the globals loop of mk_instance: an init      *)
(* expression is decoded and run by execute on a frame of its own, with no *)
(* globals, tables, types or functions, under EXPR_TICK_LIMIT.             *)
(***************************************************************************)
EXPR_TICK_LIMIT == 1024

Stops(kind, fault, frame) ==
  [kind |-> kind, fault |-> fault, frame |-> frame, ticks |-> 0]
Loops(frame, ticks) ==
  [kind |-> "exec", fault |-> "", frame |-> frame, ticks |-> ticks]

\* One pass through the loop of execute(frame, memory, globals, tables,
\* max_ticks, types, functions), for the ops of init expressions: st holds
\* the frame and the local counter ticks_used, ops is frame.program.ops and
\* gvars the globals. Once execute has returned, nothing changes.
execute_pass(st, ops, gvars, max_ticks, types) ==
  IF st.kind # "exec" THEN st
  ELSE IF st.frame.pc >= Len(ops) THEN Stops("ProgramEnd", "", st.frame)
  ELSE IF st.ticks + 1 >= max_ticks THEN Stops("Fault", "OutOfTicks", st.frame)
  ELSE
    LET op == ops[st.frame.pc + 1]
        f == [st.frame EXCEPT !.pc = @ + 1]
        goes(g) == Loops(g, st.ticks + 1)
    IN CASE op.op = "Nop" -> goes(f)
         [] op.op = "StartScope" ->
              LET r == resolve_type(types, op.sig)
              IN IF r.ok THEN goes(push_control(f, r.ty, op.st))
                 ELSE Stops("Fault", "UnresolvableTypeIndex", f)
         [] op.op = "EndScope" ->
              IF op.st = "Program" THEN Stops("DoneReturn", "", f)
              ELSE LET r == pop_control(f)
                   IN IF ~r.ok THEN Stops("Fault", r.fault, r.frame)
                      ELSE goes([r.frame EXCEPT !.stack =
                                   push_all(r.vals,
                                            shrink_to(@, r.control.stack_width))])
         [] op.op = "Br" ->
              LET r == execute_branch(f, ops, op.n)
              IN IF r.ok THEN goes(r.frame)
                 ELSE Stops("Fault", r.fault, r.frame)
         [] op.op = "Return" -> Stops("DoneReturn", "", f)
         [] op.op = "Call" -> Stops("Call", "", f)
         [] op.op = "Drop" ->
              LET c == pop_cell(f)
              IN IF ~c.ok THEN Stops("Fault", "StackUnderflow", c.frame)
                 ELSE goes(c.frame)
         [] op.op = "GetGlobal" ->
              IF op.n >= Len(gvars)
              THEN Stops("Fault", "GlobalIndexOutOfBounds", f)
              ELSE goes([f EXCEPT !.stack = push_to(gvars[op.n + 1], @)])
         [] op.op = "I32Const" -> goes(push_cell(f, op.n))
         [] op.op = "I32Add" ->
              LET b == pop_cell(f)
                  a == pop_cell(b.frame)
              IN IF ~b.ok THEN Stops("Fault", "StackUnderflow", b.frame)
                 ELSE IF ~a.ok THEN Stops("Fault", "StackUnderflow", a.frame)
                 ELSE goes(push_cell(a.frame, a.v + b.v))

\* n passes through the loop, as two halves.
RECURSIVE execute_passes(_, _, _, _, _, _)
execute_passes(st, ops, gvars, max_ticks, types, n) ==
  IF n <= 1 THEN execute_pass(st, ops, gvars, max_ticks, types)
  ELSE LET half == execute_passes(st, ops, gvars, max_ticks, types, n \div 2)
       IN IF half.kind # "exec" THEN half
          ELSE execute_passes(half, ops, gvars, max_ticks, types,
                              n - (n \div 2))

\* execute: every pass counts a tick or returns, so the loop has returned
\* after max_ticks passes.
execute(frame, ops, gvars, max_ticks, types) ==
  execute_passes(Loops(frame, 0), ops, gvars, max_ticks, types, max_ticks)

\* The frame exec_fragment builds for the decoded expression.
global_exec_frame(return_type) ==
  [locals |-> <<>>, return_types |-> <<return_type>>, program |-> 0,
   stack |-> <<>>, pc |-> 0, control_stack |-> <<>>]

Evaluated(kind, fault, val) == [kind |-> kind, fault |-> fault, val |-> val]

\* An exec_fragment that takes the value from the stack whatever
\* continuation execute returned.
exec_fragment_any_result(program, return_type) ==
  LET const_program == decode(program)
      r == execute(global_exec_frame(return_type), const_program.ops, <<>>,
                   EXPR_TICK_LIMIT, <<>>)
      v == pop_from(return_type, r.frame.stack)
  IN IF const_program.kind # "ok" THEN Evaluated("panic", "", Unit)
     ELSE IF r.kind = "Fault" THEN Evaluated("err", r.fault, Unit)
     ELSE IF ~v.ok THEN Evaluated("err", "StackUnderflow", Unit)
     ELSE Evaluated("ok", "", v.val)

\* exec_fragment(program, return_type): decode(program).unwrap(), execute,
\* UnexpectedResult unless it returned ProgramEnd, then the value popped.
exec_fragment(program, return_type) ==
  LET const_program == decode(program)
      r == execute(global_exec_frame(return_type), const_program.ops, <<>>,
                   EXPR_TICK_LIMIT, <<>>)
      v == pop_from(return_type, r.frame.stack)
  IN IF const_program.kind # "ok" THEN Evaluated("panic", "", Unit)
     ELSE IF r.kind = "Fault" THEN Evaluated("err", r.fault, Unit)
     ELSE IF r.kind # "ProgramEnd" THEN Evaluated("err", "UnexpectedResult", Unit)
     ELSE IF ~v.ok THEN Evaluated("err", "StackUnderflow", Unit)
     ELSE Evaluated("ok", "", v.val)

\* The globals loop of mk_instance over the global segments from segment i
\* on: the instance's globals, or LinkError::ActiveExpressionError and no
\* instance.
RECURSIVE populate_globals(_, _, _)
populate_globals(global_segments, i, acc) ==
  IF i > Len(global_segments) THEN [kind |-> "ok", fault |-> "", globals |-> acc]
  ELSE LET e == exec_fragment(global_segments[i].expr, global_segments[i].ty)
       IN IF e.kind = "panic" THEN [kind |-> "panic", fault |-> "", globals |-> <<>>]
          ELSE IF e.kind = "err"
          THEN [kind |-> "ActiveExpressionError", fault |-> e.fault,
                globals |-> <<>>]
          ELSE populate_globals(global_segments, i + 1, Append(acc, e.val))

(***************************************************************************)
(* Functions of the program applied on their own to inputs drawn from      *)
(* small sets; probe records the function, its inputs and its output.      *)
(***************************************************************************)
Input(fn, args) == [fn |-> fn, args |-> args, out |-> <<>>, applied |-> FALSE]

Applies(fn, out) ==
  /\ probe.fn = fn
  /\ ~probe.applied
  /\ probe' = [probe EXCEPT !.out = out, !.applied = TRUE]
  /\ UNCHANGED <<module, frame_stack, memory, globals, result, phase, cont,
                 ticks_used, run_result, total_ticks, invoked, prep,
                 globals_before, br>>

\* Operands of the division and remainder arms: the extremes, zero and
\* small values of both signs.
I32Operands == {-2147483647 - 1, -7, -2, -1, 0, 1, 2, 7, 2147483647}
I64Operands ==
  {I64_MIN, wrapping_neg(usize(7)), wrapping_neg(usize(2)),
   wrapping_neg(usize(1)), usize(0), usize(1), usize(2), usize(7),
   wrapping_sub(I64_MIN, usize(1))}
DivRemOperands(ty) == IF ty = "I32" THEN I32Operands ELSE I64Operands

DivRemInputs ==
  UNION { { Input("div_rem_arm", <<ty, op, a, b>>) :
              op \in {"DivS", "DivU", "RemS", "RemU"},
              a \in DivRemOperands(ty), b \in DivRemOperands(ty) } :
          ty \in {"I32", "I64"} }

ApplyDivRem ==
  Applies("div_rem_arm",
          div_rem_arm(probe.args[1], probe.args[2], probe.args[3],
                      probe.args[4]))

\* Sections of a binary: a custom, type, function, memory, code, data and
\* data count section and an unknown id, each read to its declared length or
\* one byte past it.
MaxSections == 2
SectionIds == {0, 1, 3, 5, 10, 11, 12, 13}
Sections ==
  { Section(id, 2, r, 1) : id \in SectionIds, r \in {2, 3} }

RECURSIVE SeqsUpTo(_, _)
SeqsUpTo(S, n) ==
  IF n = 0 THEN { <<>> }
  ELSE LET shorter == SeqsUpTo(S, n - 1)
       IN shorter \cup { Append(q, x) : q \in shorter, x \in S }

LoadInputs == { Input("load", <<q>>) : q \in SeqsUpTo(Sections, MaxSections) }

ApplyLoad == Applies("load", load(probe.args[1]))

\* Function bodies: the 0xFC prefix with each saturating-truncation
\* sub-opcode, each opcode of an unsupported proposal, and supported bodies.
SaturatingSubOpcodes == 0 .. 7
\* Streams of up to MaxStream instructions that open and close scopes, with
\* the End instructions they need, too few or too many.
MaxStream == 4
ScopeInstrs ==
  { RawBlock(SigVT("Unit")), RawLoop(SigVT("I32")), RawIf(SigVT("Unit")),
    RawEnd, Raw(Nop) }
DecodeInputs ==
  { Input("decode", << <<RawFCExtension(sub), RawEnd>> >>) :
      sub \in SaturatingSubOpcodes }
  \cup { Input("decode", << <<RawOpcode(o), RawEnd>> >>) :
           o \in UnimplementedOpcodes \ {"FCExtension"} }
  \cup { Input("decode", << <<Raw(I32Const(1)), RawEnd>> >>),
         Input("decode", << <<RawUnreachable, RawEnd>> >>),
         Input("decode", << <<Raw(I32Const(1)), RawIf(SigVT("I32")),
                              Raw(I32Const(2)), RawElse, Raw(I32Const(3)),
                              RawEnd, RawEnd>> >>) }
  \cup { Input("decode", <<q>>) : q \in SeqsUpTo(ScopeInstrs, MaxStream) \ { <<>> } }

ApplyDecode == Applies("decode", decode(probe.args[1]))

\* Values of the types whose stack cells are in stack.rs, pushed on an
\* empty and on a non-empty stack, one or several at a time.
MaxValues == 2
ProbeValues ==
  { I32(5), I32(-1), [ty |-> "I64", v |-> 6], [ty |-> "F32", v |-> 7],
    [ty |-> "F64", v |-> 8], V128(1, 2), V128(3, 3), Unit }
PushPopInputs ==
  { Input("push_pop", <<vals, stack>>) :
      vals \in SeqsUpTo(ProbeValues, MaxValues) \ { <<>> },
      stack \in { <<>>, <<9>> } }

\* value.push_to(stack) for each value in order, then pop_from(type_of(value))
\* for each value in reverse.
ApplyPushPop ==
  Applies("push_pop",
          pop_values([i \in 1 .. Len(probe.args[1]) |-> type_of(probe.args[1][i])],
                     push_all(probe.args[1], probe.args[2])))

\* A memory of one page, and offsets at its start, inside it, across and at
\* its end, and at the top of the address space.
ProbeMemory == VectorMemory_new(pages_as_usize(1), FALSE, usize(0))
USIZE_MAX == wrapping_neg(usize(1))
ProbeOffsets ==
  { usize(0), usize(4), usize(100), usize(WASM_PAGE_SIZE - 4),
    usize(WASM_PAGE_SIZE - 3), usize(WASM_PAGE_SIZE - 1), usize(WASM_PAGE_SIZE),
    usize(WASM_PAGE_SIZE + 5), wrapping_sub(USIZE_MAX, usize(3)),
    wrapping_sub(USIZE_MAX, usize(2)), USIZE_MAX }
ProbeI32s == { 0, 1, -1, 305419896, -2147483647 - 1, 2147483647 }
SetGetInputs ==
  { Input("set_get_i32", <<o, v>>) : o \in ProbeOffsets, v \in ProbeI32s }

\* memory.set_i32(o, v) and then memory.get_i32(o): the two results, the
\* value read and the memory afterwards.
ApplySetGet ==
  /\ probe.fn = "set_get_i32"
  /\ \E overflow_checks \in BOOLEAN :
    \E s \in { set_i32(ProbeMemory, probe.args[1], probe.args[2],
                       overflow_checks) } :
      \E after \in { IF s.kind = "ok" THEN s.mem ELSE ProbeMemory } :
        \E g \in { get_i32(after, probe.args[1], overflow_checks) } :
          Applies("set_get_i32", <<s.kind, g.kind, g.val, after>>)

\* Buffers of up to MaxLebBytes bytes: bytes with and without the
\* continuation bit, with and without bits above the low four.
MaxLebBytes == 6
LebBytes == {0, 15, 16, 128, 255}
Varuint32Inputs ==
  { Input("load_imm_varuint32", LEB128Reader_new(b, 0)) :
      b \in SeqsUpTo(LebBytes, MaxLebBytes) }

ApplyVaruint32 ==
  /\ probe.fn = "load_imm_varuint32"
  /\ Applies("load_imm_varuint32", load_imm_varuint32(remaining_bytes(probe.args)))

\* The block type of a type index: the index as a signed 33-bit LEB128
\* integer, which is not negative.
RECURSIVE block_type_index(_)
block_type_index(i) ==
  IF i < 64 THEN <<i>> ELSE <<128 + (i % 128)>> \o block_type_index(i \div 128)

\* Type indices around the codes of the value types, and the one-byte block
\* types.
TypeIndices == {0, 1, 63, 64, 110, 111, 112, 122, 128, 8191, 8192} \cup 123 .. 127
ValueTypeBytes == {64, 111, 112} \cup 123 .. 127
SignatureInputs ==
  { Input("read_signature", LEB128Reader_new(block_type_index(i), 0)) :
      i \in TypeIndices }
  \cup { Input("read_signature", LEB128Reader_new(<<b>>, 0)) :
           b \in ValueTypeBytes }
  \cup { Input("read_signature", LEB128Reader_new(<<b, 0>>, 0)) :
           b \in {192, 255} }

ApplyReadSignature ==
  /\ probe.fn = "read_signature"
  /\ Applies("read_signature", read_signature(remaining_bytes(probe.args)))

\* Init expressions without their End, as get_expr hands them over: a
\* constant, a sum, a call, a return, a read of global 0, a loop that
\* branches to itself, and none.
ConstExprs ==
  { << Raw(I32Const(5)) >>,
    << Raw(I32Const(3)), Raw(I32Const(4)), Raw(I32Add) >>,
    << Raw(I32Const(1)), Raw(Call(0)) >>,
    << Raw(I32Const(1)), Raw(Return) >>,
    << Raw(GetGlobal(0)) >>,
    << RawLoop(SigVT("Unit")), Raw(Br(0)), RawEnd, Raw(I32Const(1)) >>,
    << >> }
MaxGlobals == 2
GlobalSegments == { [ty |-> "I32", expr |-> e] : e \in ConstExprs }
GlobalsInputs ==
  { Input("populate_globals", <<g>>) :
      g \in SeqsUpTo(GlobalSegments, MaxGlobals) \ { <<>> } }

ApplyGlobals ==
  /\ probe.fn = "populate_globals"
  /\ \E r \in { populate_globals(probe.args[1], 1, <<>>) } :
       Applies("populate_globals", r)

\* One local of each type, holding a value of its own, under a stack whose
\* top cell is a number, a function index or the null reference; local
\* index 0 and an index out of bounds.
LocalTypes == {"I32", "I64", "F32", "F64", "FuncRef", "ExternRef", "V128"}
local_before(ty) ==
  IF ty \in RefTypes THEN Ref(ty, <<7>>)
  ELSE IF ty = "V128" THEN V128(7, 7) ELSE [ty |-> ty, v |-> 7]
LocalStacks == { <<>>, <<3>>, <<9, 4>>, <<NULL_REF>>, <<9, NULL_REF>> }
SetLocalInputs ==
  { Input("set_local_from_stack", << <<local_before(ty)>>, stack, <<ty>>, idx, 0 >>) :
      ty \in LocalTypes, stack \in LocalStacks, idx \in {0, 1} }

\* Op::TeeLocal(idx) and Op::SetLocal(idx) on the same frame: the outcome of
\* set_local_from_stack(idx, false) and of set_local_from_stack(idx, true).
ApplySetLocal ==
  /\ probe.fn = "set_local_from_stack"
  /\ \E tee \in { set_local_from_stack(probe.args[1], probe.args[2],
                                        probe.args[3], probe.args[4], FALSE) } :
       \E set \in { set_local_from_stack(probe.args[1], probe.args[2],
                                          probe.args[3], probe.args[4], TRUE) } :
         Applies("set_local_from_stack", <<tee, set>>)

FnInputs ==
  GlobalsInputs \cup SetLocalInputs \cup DivRemInputs \cup LoadInputs \cup DecodeInputs \cup PushPopInputs
    \cup SetGetInputs \cup Varuint32Inputs \cup SignatureInputs

FnInit == InitProgram /\ module = 1 /\ probe \in FnInputs

FnNext ==
  \/ ApplyDivRem
  \/ ApplyLoad
  \/ ApplyDecode
  \/ ApplyPushPop
  \/ ApplySetGet
  \/ ApplyVaruint32
  \/ ApplyReadSignature
  \/ ApplyGlobals
  \/ ApplySetLocal

FnSpec == FnInit /\ [][FnNext]_vars

(***************************************************************************)
(* Properties.                                                             *)
(***************************************************************************)
RunReturnedOk == phase = "idle" /\ run_result = "Ok"
RunReturnedErr == phase = "idle" /\ run_result \notin {"none", "Ok"}

\* C1: whenever run() returns an error, at whatever call depth it was
\* raised, the frame stack is empty.
C1_FaultTearsDownFrames == RunReturnedErr => Len(frame_stack) = 0

\* C2: the instructions executed in one invocation, over all frames and all
\* re-entries of execute(), never exceed the tick limit.
C2_TicksCumulative == total_ticks <= TickLimit

\* C3: the frame stack never holds more frames than the stack depth limit.
C3_FrameDepthBounded == Len(frame_stack) <= StackDepthLimit

\* C4: every run() eventually returns (or, at the least, ends with the
\* process when frame_stack cannot grow).
C4_RunTerminates == (phase = "running") ~> (phase \in {"idle", "aborted"})

\* C5: with the start-function module, a first invocation of get (function
\* index 1) returns 68: 'A' incremented three times by the start function.
C5_StartFunctionRan ==
  (M = ModStart /\ invoked = <<1>> /\ RunReturnedOk) => result = Some(<<I32(ByteA + 3)>>)

\* The branch signature of a control frame: the parameter types of a Loop,
\* the result types of every other scope.
branch_signature(control) ==
  IF control.scope_type = "Loop"
  THEN (IF control.signature.kind = "vt" THEN <<>> ELSE control.signature.params)
  ELSE result_types(control.signature)

TopCells(stack, k) == SubSeq(stack, Len(stack) - k + 1, Len(stack))

\* C6: after a taken branch the value stack is as wide as the target's width
\* at entry plus its branch signature, and the cells on top are the topmost
\* cells from before the branch.
C6_BranchStackWidth ==
  br.kind = "taken" =>
    LET k == Len(branch_signature(br.target))
    IN /\ width(top_frame.stack) = br.target.entry_width + k
       /\ k <= width(br.before.stack)
       /\ TopCells(top_frame.stack, k) = TopCells(br.before.stack, k)

\* C7: a branch of depth d on a control stack of length n, d < n, leaves
\* n - d frames when the target is a Loop and n - d - 1 otherwise; with
\* d >= n it faults with ControlStackUnderflow and leaves the frame as it was.
C7_BranchControlLength ==
  /\ br.kind = "taken" =>
       /\ br.d < br.n
       /\ Len(top_frame.control_stack) =
            br.n - br.d - (IF br.target.scope_type = "Loop" THEN 0 ELSE 1)
  /\ (br.kind # "none" /\ br.d >= br.n) =>
       /\ br.kind = "fault"
       /\ cont = Fault("ControlStackUnderflow")
       /\ top_frame = br.before

\* A branch of depth 2 out of two scopes nested in a Loop went back to the
\* Loop and kept its frame.
C7_Witness ==
  /\ br.kind = "taken"
  /\ br.target.scope_type = "Loop"
  /\ br.d = 2
  /\ br.n = 5
  /\ Len(top_frame.control_stack) = 3

\* C8: a taken branch to a Loop continues just after that Loop's StartScope.
C8_LoopBranchPc ==
  (br.kind = "taken" /\ br.target.scope_type = "Loop") =>
    top_frame.pc = br.target.start_pc + 1

\* The index of the EndScope that closes the StartScope at index start.
RECURSIVE matching_end(_, _, _)
matching_end(ops, i, depth) ==
  IF i >= Len(ops) THEN Len(ops)
  ELSE IF ops[i + 1].op = "StartScope" THEN matching_end(ops, i + 1, depth + 1)
  ELSE IF ops[i + 1].op = "EndScope"
  THEN (IF depth = 0 THEN i ELSE matching_end(ops, i + 1, depth - 1))
  ELSE matching_end(ops, i + 1, depth)

\* C9: a taken branch to a Block or IfElse continues just after the EndScope
\* matching the target's StartScope; a branch to the Function scope ends the
\* function (pc = ops.len()).
C9_BlockBranchPc ==
  /\ (br.kind = "taken" /\ br.target.scope_type \in {"Block", "IfElse"}) =>
       top_frame.pc = matching_end(top_ops, br.target.start_pc + 1, 0) + 1
  /\ (br.kind = "taken" /\ br.target.scope_type = "Function") =>
       top_frame.pc = Len(top_ops)

\* C10: after a successful invocation every immutable global has the value
\* it had before the invocation.
C10_ImmutableGlobalsKept ==
  RunReturnedOk =>
    \A i \in 1 .. Len(globals) :
      ~M.globals[i].mutable => globals[i] = globals_before[i]

\* The arguments are as many as the parameters and of their types.
args_match(params, args) ==
  /\ Len(args) = Len(params)
  /\ \A i \in 1 .. Len(params) : type_of(args[i]) = params[i]

\* run() is in the arm Ok(Continuation::Call(funcidx)) and the frame stack
\* can take another frame.
AtCall ==
  /\ phase = "running"
  /\ cont.kind = "Call"
  /\ ~(CallPushes /\ Len(frame_stack) >= MaxFrames)

\* prepare() of an imported function index returns a link error; prepare() of
\* a local function index with matching arguments pushes a frame of that
\* function's own body and type.
C11_PrepareResolves ==
  prep.kind = "done" =>
    /\ is_imported(M, prep.funcidx) => prep.result = "UnsupportedFeature"
    /\ (is_local(M, prep.funcidx)
         /\ args_match(local_type(M, prep.funcidx).params, prep.args)) =>
           prep.result = "Ok"
    /\ (is_local(M, prep.funcidx) /\ phase = "prepared") =>
         /\ top_frame.program = prep.funcidx - Len(func_imports(M))
         /\ top_frame.return_types = local_type(M, prep.funcidx).results

\* A Call of an imported function index makes run() return a link error; a
\* Call of a local function index whose arguments are on the stack pushes a
\* frame of that function's own body and type.
C11_CallResolves ==
  AtCall =>
    /\ is_imported(M, cont.idx) =>
         phase' = "idle" /\ run_result' = "UnsupportedFeature"
    /\ (is_local(M, cont.idx)
         /\ pop_values(local_type(M, cont.idx).params, top_frame.stack).ok) =>
           /\ Len(frame_stack') = Len(frame_stack) + 1
           /\ frame_stack'[Len(frame_stack')].program =
                cont.idx - Len(func_imports(M))
           /\ frame_stack'[Len(frame_stack')].return_types =
                local_type(M, cont.idx).results

\* C11: invoking an imported function index, through prepare() or a Call,
\* yields a link error, and invoking a local function index resolves to that
\* function's own body and type (index minus the number of imported
\* functions), whatever type indices the imports carry.
C11_ImportsResolved == []C11_PrepareResolves /\ [][C11_CallResolves]_vars

\* C12: prepare() of a local function succeeds only when the arguments are
\* as many as the parameters and of their types; otherwise it returns an
\* argument type mismatch and pushes no frame.
C12_PrepareValidatesArgs ==
  (prep.kind = "done" /\ is_local(M, prep.funcidx)) =>
    /\ prep.result = "Ok" =>
         args_match(local_type(M, prep.funcidx).params, prep.args)
    /\ ~args_match(local_type(M, prep.funcidx).params, prep.args) =>
         /\ prep.result = "ArgumentTypeMismatch"
         /\ frame_stack = prep.frames

\* The locals a call gives the callee: the topmost cells of the caller's
\* stack, the deepest first, typed by the parameters, then the zero of each
\* declared local.
call_locals(params, declared, stack) ==
  [i \in 1 .. Len(params) |->
     [ty |-> params[i], v |-> stack[Len(stack) - Len(params) + i]]]
  \o [i \in 1 .. Len(declared) |-> zero_value(declared[i])]

declared_locals(m, funcidx) == m.locals[funcidx - Len(func_imports(m)) + 1]

C13_CallStep ==
  (/\ AtCall
   /\ is_local(M, cont.idx)
   /\ Len(local_type(M, cont.idx).params) <= Len(top_frame.stack)) =>
    LET params == local_type(M, cont.idx).params
        n == Len(frame_stack)
    IN /\ Len(frame_stack') = n + 1
       /\ frame_stack'[n + 1].pc = 0
       /\ frame_stack'[n + 1].stack = <<>>
       /\ frame_stack'[n + 1].locals =
            call_locals(params, declared_locals(M, cont.idx), top_frame.stack)
       /\ frame_stack'[n].stack =
            SubSeq(top_frame.stack, 1, Len(top_frame.stack) - Len(params))
       /\ frame_stack'[n].locals = top_frame.locals

\* C13: a Call pushes a frame with pc 0, an empty value stack and locals
\* equal to the arguments popped from the caller followed by the zero of each
\* declared local; the caller loses exactly the |params| topmost cells and
\* keeps its locals.
C13_CallFrame == [][C13_CallStep]_vars

\* run() is in the arm Ok(ProgramEnd) | Ok(DoneReturn).
AtDone == phase = "running" /\ cont.kind \in {"ProgramEnd", "DoneReturn"}

ops_of(frame) == programs(M)[frame.program + 1].ops

\* The op a frame executed last.
last_op(frame) == ops_of(frame)[frame.pc]

C14_DoneStep ==
  (AtDone /\ Len(top_frame.return_types) <= Len(top_frame.stack)) =>
    LET n == Len(frame_stack)
        rt == top_frame.return_types
        res == TopCells(top_frame.stack, Len(rt))
    IN IF n > 1
       THEN /\ Len(frame_stack') = n - 1
            /\ frame_stack'[n - 1].stack = frame_stack[n - 1].stack \o res
            /\ frame_stack'[n - 1].pc = frame_stack[n - 1].pc
            /\ frame_stack[n - 1].pc > 0
            /\ last_op(frame_stack[n - 1]).op \in {"Call", "CallIndirect"}
            /\ phase' = "running"
            /\ cont' = Exec
       ELSE /\ frame_stack' = <<>>
            /\ result' = Some([i \in 1 .. Len(rt) |-> [ty |-> rt[i], v |-> res[i]]])
            /\ run_result' = "Ok"

\* C14: when a callee finishes, its frame is popped, its results go onto the
\* caller's stack in declaration order and the caller resumes just after its
\* Call; when the finished frame was the only one, result() holds the
\* results in declaration order.
C14_ReturnToCaller == [][C14_DoneStep]_vars

\* The type of the function with function index funcidx, imported or local.
function_type(m, funcidx) ==
  IF is_imported(m, funcidx)
  THEN m.types[func_imports(m)[funcidx + 1].idx + 1]
  ELSE local_type(m, funcidx)

C15_CallIndirectStep ==
  (Ready("CallIndirect") /\ Len(top_frame.stack) > 0) =>
    LET i == Last(top_frame.stack)
        elements == mk_instance(M).tables[cur.n + 1].elements
    IN IF i < 0 \/ i >= Len(elements)
       THEN cont' = Fault("UndefinedElement")
       ELSE IF ~elements[i + 1].some
       THEN cont' = Fault("UninitializedElement")
       ELSE IF function_type(M, elements[i + 1].func_idx) # M.types[cur.sig.idx + 1]
       THEN cont' = Fault("IndirectCallTypeMismatch")
       ELSE cont' = ContCall(elements[i + 1].func_idx)

\* C15: CallIndirect pops a table index i; i outside the table traps
\* UndefinedElement, a never-initialised element traps UninitializedElement,
\* an element whose function type differs from the expected type traps
\* IndirectCallTypeMismatch, and otherwise the referenced function is called.
C15_CallIndirectClassifies == [][C15_CallIndirectStep]_vars

\* The first invocation of the model was dispatch (function index 2 of
\* ModTable) with the given selector and argument, and run() has returned.
Dispatched(selector, arg) ==
  /\ M = ModTable
  /\ invoked = <<2>>
  /\ prep.args = <<I32(selector), I32(arg)>>
  /\ phase = "idle"
  /\ run_result # "none"

\* C16 as stated: dispatch(0, 21) returns 42, dispatch(1, 10) returns 30 and
\* dispatch(2, 0) traps with undefined element.
C16_DispatchAsStated ==
  /\ Dispatched(0, 21) => (run_result = "Ok" /\ result = Some(<<I32(42)>>))
  /\ Dispatched(1, 10) => (run_result = "Ok" /\ result = Some(<<I32(30)>>))
  /\ Dispatched(2, 0) => run_result = "UndefinedElement"

\* C16: dispatch(0, 21) returns 42, dispatch(1, 10) returns 30, and
\* dispatch(2, 0), whose table entry lies inside the table of 32 and was never
\* initialised, traps with uninitialized element.
C16_Dispatch ==
  /\ Dispatched(0, 21) => (run_result = "Ok" /\ result = Some(<<I32(42)>>))
  /\ Dispatched(1, 10) => (run_result = "Ok" /\ result = Some(<<I32(30)>>))
  /\ Dispatched(2, 0) => run_result = "UninitializedElement"

\* dispatch(2, 0) has trapped on the entry that was never initialised.
C16_Witness == Dispatched(2, 0) /\ run_result = "UninitializedElement"

\* The memory accesses of the model, their widths in bytes, and whether the
\* op at pc is one whose operands are on the stack.
access_width(o) == IF o \in {"LoadI32", "StoreI32"} THEN 4 ELSE 1
is_store(o) == o \in {"Store8_32", "StoreI32"}

AtAccess ==
  /\ \E o \in {"Load8Ze", "LoadI32", "Store8_32", "StoreI32"} : Ready(o)
  /\ Len(top_frame.stack) >= (IF is_store(cur.op) THEN 2 ELSE 1)

\* The base operand of the access at pc: the top cell of a load, the cell
\* under the value of a store.
access_base ==
  IF is_store(cur.op) THEN top_frame.stack[Len(top_frame.stack) - 1]
  ELSE Last(top_frame.stack)

\* The effective address of the access at pc: the unsigned base plus
\* memarg.offset, without wrap-around.
effective_address == usize_add(usize(cur.n), u32_as_usize(access_base)).val

access_out_of_bounds ==
  usize_gt(usize_add(effective_address, usize(access_width(cur.op))).val,
           memory.size)

\* The bytes of the value a store writes.
stored_bytes ==
  IF cur.op = "StoreI32" THEN to_le_bytes(Last(top_frame.stack))
  ELSE << Last(top_frame.stack) % 256 >>

\* The value a load at the effective address reads.
loaded_value ==
  IF cur.op = "LoadI32"
  THEN from_le_bytes([i \in 1 .. 4 |-> byte_at(memory, effective_address, i - 1)])
  ELSE mem_byte(memory, effective_address)

C17_AccessStep ==
  AtAccess =>
    /\ phase' = "running"
    /\ (cont' = Fault("MemoryOutOfBounds")) <=> access_out_of_bounds
    /\ ~access_out_of_bounds =>
         /\ cont' = Exec
         /\ IF is_store(cur.op)
            THEN memory' = copy_from_slice(memory, effective_address, stored_bytes)
            ELSE /\ memory' = memory
                 /\ Last(frame_stack'[Len(frame_stack')].stack) = loaded_value

\* C17: a memory access is made at the popped i32 base read as an unsigned
\* 32-bit number plus memarg.offset, without wrap-around, and traps
\* MemoryOutOfBounds exactly when that address plus the access width exceeds
\* the memory size, bases with the top bit set included.
C17_EffectiveAddress == [][C17_AccessStep]_vars

\* The largest memory a module may declare, in pages.
MAX_MEMORY_SIZE_PAGES == 65536

\* The page limit of the module's memory: its declared maximum when it has
\* one, and MAX_MEMORY_SIZE_PAGES at most.
page_limit(m) ==
  IF m.memories # <<>> /\ m.memories[1].has_max
  THEN Min(m.memories[1].max, MAX_MEMORY_SIZE_PAGES)
  ELSE MAX_MEMORY_SIZE_PAGES

AtGrow == Ready("MemoryGrow") /\ Len(top_frame.stack) > 0

grow_delta == Last(top_frame.stack)

grow_allowed ==
  grow_delta >= 0 /\ page_count(memory.size) + grow_delta <= page_limit(M)

C18_GrowStep ==
  AtGrow =>
    /\ phase' = "running"
    /\ cont' = Exec
    /\ IF grow_allowed
       THEN /\ Last(frame_stack'[Len(frame_stack')].stack) = page_count(memory.size)
            /\ memory' = [memory EXCEPT
                 !.size = usize_add(@, pages_as_usize(grow_delta)).val]
       ELSE /\ Last(frame_stack'[Len(frame_stack')].stack) = -1
            /\ memory' = memory

\* C18: MemoryGrow pops an i32 delta and never traps: a negative delta pushes
\* -1 and leaves the size unchanged; an allowed growth pushes the old page
\* count and the size grows by delta pages, new bytes zero and old bytes
\* unchanged; a growth that is not allowed pushes -1 and leaves the size
\* unchanged.
C18_MemoryGrow == [][C18_GrowStep]_vars

\* C19: the byte length of the memory is a multiple of 65,536 and at most
\* min(declared max, 65,536 pages).
C19_MemorySizeBounded ==
  /\ memory.size[1] = 0
  /\ ~usize_gt(memory.size, pages_as_usize(page_limit(M)))

\* Address a lies in the range an active data segment of m is copied to.
covered_by_active(m, a) ==
  \E i \in 1 .. Len(m.data) :
    /\ m.data[i].mode = "Active"
    /\ \E k \in 0 .. (Len(m.data[i].bytes) - 1) :
         a = usize_add(i32_as_usize(m.data[i].offset), usize(k)).val

\* C20: instantiation does not materialise passive data segments: after
\* mk_instance, before any invocation, every memory byte that no active data
\* segment covers is zero.
C20_PassiveDataNotCopied ==
  invoked = <<>> =>
    \A a \in DOMAIN memory.bytes :
      covered_by_active(M, a) \/ memory.bytes[a] = 0

\* C21: a function whose executed path reaches `unreachable` traps: run()
\* returns a fault and no instruction after the `unreachable` is executed.
\* Both functions of ModUnreachable reach it on their only path, the first
\* one before its write to the global.
C21_UnreachableTraps ==
  M = ModUnreachable =>
    /\ run_result # "Ok"
    /\ result = None
    /\ globals = mk_instance(M).globals

\* The first invocation was function 0 of ModBrIf with argument a, and run()
\* has returned.
BrIfInvoked(a) ==
  /\ M = ModBrIf
  /\ invoked = <<0>>
  /\ prep.args = <<I32(a)>>
  /\ phase = "idle"
  /\ run_result # "none"

\* C22 as stated: the function of ModBrIf returns I32(16) when invoked with
\* I32(0) (branch not taken) and I32(9) when invoked with I32(1) (branch
\* taken to the end of the block).
C22_BrIfAsStated ==
  /\ BrIfInvoked(0) => (run_result = "Ok" /\ result = Some(<<I32(16)>>))
  /\ BrIfInvoked(1) => (run_result = "Ok" /\ result = Some(<<I32(9)>>))

\* C22: the function of ModBrIf returns I32(16) when invoked with I32(0)
\* (branch not taken); invoked with I32(1) the branch to the end of the
\* block is taken with no value for the block's result, the i32.add finds
\* one operand only, and run() returns StackUnderflow without a result.
C22_BrIfFunction ==
  /\ BrIfInvoked(0) => (run_result = "Ok" /\ result = Some(<<I32(16)>>))
  /\ BrIfInvoked(1) => (run_result = "StackUnderflow" /\ result = None)

\* The invocation with I32(1) has returned StackUnderflow.
C22_Witness == BrIfInvoked(1) /\ run_result = "StackUnderflow"

C23_OutOfTicksStep ==
  (cont.kind = "exec" /\ cont' = Fault("OutOfTicks")) => total_ticks >= TickLimit

\* C23: OutOfTicks is raised only when the limit is exceeded: with tick limit
\* N it is returned only when N instructions have been executed and one more
\* would be executed.
C23_OutOfTicksOnlyBeyondLimit == [][C23_OutOfTicksStep]_vars

\* a * b modulo 2^64, by shift and add over the bits of b from bit i up.
RECURSIVE wrapping_mul_from(_, _, _, _)
wrapping_mul_from(a, b, i, acc) ==
  IF i > 63 THEN acc
  ELSE CHOOSE res \in
         { wrapping_mul_from(p[1], b, i + 1, p[2]) :
             p \in { << shl1(a, 0).val,
                        IF bit_of(b, i) = 1 THEN usize_add(acc, a).val
                        ELSE acc >> } } : TRUE

wrapping_mul(a, b) == wrapping_mul_from(a, b, 0, usize(0))

\* An operand or result of the division arms as a 64-bit value.
extended(ty, signed, v) ==
  IF ty = "I64" THEN v ELSE IF signed THEN i32_as_usize(v) ELSE u32_as_usize(v)

\* q and r are the quotient truncated towards zero and the remainder of x by
\* y # 0: x = q * y + r, with |r| < |y| and r zero or of the sign of x.
Truncating(signed, x, y, q, r) ==
  /\ usize_add(wrapping_mul(q, y), r).val = x
  /\ IF signed
     THEN /\ usize_lt(unsigned_abs(r), unsigned_abs(y))
          /\ r = usize(0) \/ is_negative(r) = is_negative(x)
          /\ ~usize_gt(unsigned_abs(q), unsigned_abs(x))
     ELSE /\ usize_lt(r, y)
          /\ ~usize_gt(q, x)

\* C24: the i32 and i64 division and remainder arms, over all operand pairs:
\* a zero divisor gives IntegerDivisionByZero for the signed and unsigned
\* division and remainder; signed MIN / -1 gives IntegerOverflow; signed
\* MIN % -1 gives 0; every other pair gives the quotient truncated towards
\* zero, or the matching remainder, without a fault.
C24_DivRem ==
  probe.fn = "div_rem_arm" /\ probe.applied =>
    LET ty == probe.args[1]
        op == probe.args[2]
        a == probe.args[3]
        b == probe.args[4]
        signed == op \in {"DivS", "RemS"}
        x == extended(ty, signed, a)
        y == extended(ty, signed, b)
        zero == IF ty = "I64" THEN usize(0) ELSE 0
        min_by_minus_one ==
          signed /\ x = INT_MIN(ty) /\ y = wrapping_neg(usize(1))
        quot == div_rem_arm(ty, IF signed THEN "DivS" ELSE "DivU", a, b)
        rem == div_rem_arm(ty, IF signed THEN "RemS" ELSE "RemU", a, b)
    IN IF y = usize(0) THEN probe.out.fault = "IntegerDivisionByZero"
       ELSE IF min_by_minus_one
       THEN IF op = "DivS" THEN probe.out.fault = "IntegerOverflow"
            ELSE probe.out = [val |-> zero, fault |-> ""]
       ELSE /\ probe.out.fault = ""
            /\ quot.fault = ""
            /\ rem.fault = ""
            /\ Truncating(signed, x, y, extended(ty, signed, quot.val),
                          extended(ty, signed, rem.val))

\* The signed 32-bit division of MIN by -1 has been applied and has
\* overflowed.
C24_Witness ==
  /\ probe.fn = "div_rem_arm"
  /\ probe.applied
  /\ probe.args = <<"I32", "DivS", -2147483647 - 1, -1>>
  /\ probe.out.fault = "IntegerOverflow"

\* A negative dividend has been divided: -7 / 2 = -3.
C24_WitnessQuotient ==
  /\ probe.fn = "div_rem_arm"
  /\ probe.applied
  /\ probe.args = <<"I64", "DivS", wrapping_neg(usize(7)), usize(2)>>
  /\ probe.out = [val |-> wrapping_neg(usize(3)), fault |-> ""]

\* The ids of the non-custom sections of a binary, in file order.
RECURSIVE non_custom_ids(_)
non_custom_ids(sections) ==
  IF sections = <<>> THEN <<>>
  ELSE IF Head(sections).id = SECTION_ID_CUSTOM
       THEN non_custom_ids(Tail(sections))
       ELSE <<Head(sections).id>> \o non_custom_ids(Tail(sections))

\* The place of a section id in the canonical order: type, import, function,
\* table, memory, global, export, start, element, data count, code, data.
canonical_rank(id) ==
  CASE id \in 1 .. 9 -> id
    [] id = 12 -> 10
    [] id = 10 -> 11
    [] id = 11 -> 12
    [] OTHER -> 13

WellFormedSections(sections) ==
  LET ids == non_custom_ids(sections)
  IN /\ \A i \in 1 .. Len(sections) :
          /\ sections[i].id \in 0 .. 12
          /\ sections[i].id # SECTION_ID_CUSTOM =>
               sections[i].what_we_read = sections[i].section_length
     /\ \A i \in 1 .. Len(ids) : \A j \in 1 .. Len(ids) :
          i < j => canonical_rank(ids[i]) < canonical_rank(ids[j])

\* C25: Module::load accepts a sequence of sections only if every non-custom
\* section id appears at most once, the non-custom sections are in the
\* canonical order, and every section's content ends at its declared length.
C25_LoadAcceptsOnlyWellFormed ==
  (probe.fn = "load" /\ probe.applied /\ probe.out = "Ok") =>
    WellFormedSections(probe.args[1])

\* The Op variants of op.rs for the sub-opcodes 0 .. 7 of the 0xFC prefix.
TruncSatOps ==
  << "I32TruncSatF32S", "I32TruncSatF32U", "I32TruncSatF64S", "I32TruncSatF64U",
     "I64TruncSatF32S", "I64TruncSatF32U", "I64TruncSatF64S", "I64TruncSatF64U" >>

\* C26: decoding a function body that holds the 0xFC prefix followed by a
\* saturating-truncation sub-opcode succeeds and emits the matching
\* I32TruncSat* / I64TruncSat* Op; the unimplemented-opcode error is left to
\* the 0xFB, 0xFD and 0xFE prefixes and the other unsupported opcodes.
C26_DecodesSaturatingTruncation ==
  (/\ probe.fn = "decode"
   /\ probe.applied
   /\ probe.args[1][1].opcode = "FCExtension"
   /\ probe.args[1][1].op.n \in SaturatingSubOpcodes) =>
    /\ probe.out.kind = "ok"
    /\ Len(probe.out.ops) >= 1
    /\ probe.out.ops[1].op = TruncSatOps[probe.args[1][1].op.n + 1]

\* C27: pushing values with push_to and popping them in reverse with
\* pop_from(type_of(v)) returns the values unchanged and leaves the stack as
\* it was before the pushes, for every value type.
C27_PushPopRoundTrip ==
  (probe.fn = "push_pop" /\ probe.applied) =>
    /\ probe.out.ok
    /\ probe.out.vals = probe.args[1]
    /\ probe.out.stack = probe.args[2]

\* o + 4 <= size, as numbers.
within_size(mem, o) ==
  LET end == usize_add(o, usize(4))
  IN ~end.overflow /\ ~usize_gt(end.val, mem.size)

\* C28: for o + 4 <= size, set_i32(o, v) followed by get_i32(o) returns v,
\* the bytes are v in little-endian order and the bytes outside
\* [o, o + 4) are unchanged; for o + 4 > size both accessors return
\* MemoryOutOfBounds and the memory is unchanged.
C28_TypedAccessors ==
  (probe.fn = "set_get_i32" /\ probe.applied) =>
    LET o == probe.args[1]
        v == probe.args[2]
        set_kind == probe.out[1]
        get_kind == probe.out[2]
        got == probe.out[3]
        after == probe.out[4]
    IN IF within_size(ProbeMemory, o)
       THEN /\ set_kind = "ok"
            /\ get_kind = "ok"
            /\ got = v
            /\ \A i \in 0 .. 3 :
                 get_u8(after, usize_add(o, usize(i)).val) =
                   [kind |-> "ok", val |-> to_le_bytes(v)[i + 1]]
            /\ \A a \in DOMAIN after.bytes :
                 a \notin { usize_add(o, usize(i)).val : i \in 0 .. 3 } =>
                   after.bytes[a] = mem_byte(ProbeMemory, a)
            /\ after.size = ProbeMemory.size
       ELSE /\ set_kind = "fault"
            /\ get_kind = "fault"
            /\ after = ProbeMemory

\* execute() is about to run an EndScope other than EndScope(Program) with
\* an open control frame whose result values are on the stack.
AtEndScope ==
  /\ Ready("EndScope")
  /\ cur.st # "Program"
  /\ Len(top_frame.control_stack) > 0
  /\ Len(top_frame.stack) >=
       Len(result_types(Last(top_frame.control_stack).signature))

C29_EndScopeStep ==
  AtEndScope =>
    LET c == Last(top_frame.control_stack)
        n == Len(result_types(c.signature))
        f == frame_stack'[Len(frame_stack')]
    IN /\ cont' = Exec
       /\ f.control_stack = Front(top_frame.control_stack)
       /\ width(f.stack) = c.entry_width + n
       /\ TopCells(f.stack, n) = TopCells(top_frame.stack, n)

RECURSIVE matching_else(_, _, _)
matching_else(ops, i, depth) ==
  IF i >= Len(ops) THEN -1
  ELSE IF ops[i + 1].op = "StartScope" THEN matching_else(ops, i + 1, depth + 1)
  ELSE IF ops[i + 1].op = "EndScope"
  THEN (IF depth = 0 THEN -1 ELSE matching_else(ops, i + 1, depth - 1))
  ELSE IF ops[i + 1].op = "Else" /\ depth = 0 THEN i
  ELSE matching_else(ops, i + 1, depth)

\* The control frame of the if being executed: the top one, pushed by the
\* StartScope at start_pc.
if_frame == Last(top_frame.control_stack)

\* An If pops the condition and goes on with the then-arm when it is nonzero,
\* and otherwise just after the matching Else, or at the matching EndScope
\* when the if has no else; no control frame is pushed or popped.
C30_IfStep ==
  (Ready("If") /\ Len(top_frame.stack) > 0) =>
    LET start == top_frame.pc - 1
        else_pc == matching_else(top_ops, start + 1, 0)
        f == frame_stack'[Len(frame_stack')]
    IN /\ cont' = Exec
       /\ if_frame.scope_type = "IfElse" /\ if_frame.start_pc = start
       /\ f.control_stack = top_frame.control_stack
       /\ f.stack = Front(top_frame.stack)
       /\ f.pc = IF Last(top_frame.stack) # 0 THEN top_frame.pc + 1
                 ELSE IF else_pc >= 0 THEN else_pc + 1
                 ELSE matching_end(top_ops, start + 1, 0)

\* An Else, reached at the end of the then-arm, is the Else of the innermost
\* open if and goes to that if's EndScope, leaving both stacks alone.
C30_ElseStep ==
  Ready("Else") =>
    LET f == frame_stack'[Len(frame_stack')]
    IN /\ cont' = Exec
       /\ if_frame.scope_type = "IfElse"
       /\ matching_else(top_ops, if_frame.start_pc + 1, 0) = top_frame.pc
       /\ f.control_stack = top_frame.control_stack
       /\ f.stack = top_frame.stack
       /\ f.pc = matching_end(top_ops, if_frame.start_pc + 1, 0)

\* An EndScope(IfElse) that finds its results on the stack closes the
\* innermost open if and pops that if's control frame.
C30_EndStep ==
  (AtEndScope /\ cur.st = "IfElse") =>
    /\ if_frame.scope_type = "IfElse"
    /\ matching_end(top_ops, if_frame.start_pc + 1, 0) = top_frame.pc
    /\ frame_stack'[Len(frame_stack')].control_stack =
         Front(top_frame.control_stack)

\* The first invocation was function funcidx of ModIf with argument a, and
\* run() has returned Ok.
IfInvoked(funcidx, a) ==
  /\ M = ModIf
  /\ invoked = <<funcidx>>
  /\ prep.args = <<I32(a)>>
  /\ RunReturnedOk

\* Exactly one arm of each if has run: the result, or the global, is the one
\* of the arm the conditions select.
C30_OneArm ==
  \A a \in ArgVals :
    /\ IfInvoked(0, a) => result = Some(<<I32(IF a # 0 THEN 1 ELSE 4)>>)
    /\ IfInvoked(1, a) => result = Some(<<I32(IF a # 0 THEN 2 ELSE 3)>>)
    /\ IfInvoked(2, a) => globals[1] = I32(IF a # 0 THEN 8 ELSE 1)

\* C30: for every if, with or without else and at any nesting depth, exactly
\* one arm runs: a nonzero condition runs the then-arm and then skips from
\* its Else to the matching EndScope; a zero condition goes to just after the
\* matching Else, or to the matching EndScope when there is no else; the Else
\* and EndScope of a nested if are never taken for the match; the if's
\* control frame is popped once, at its EndScope.
C30_IfElseMatching ==
  []C30_OneArm /\ [][C30_IfStep /\ C30_ElseStep /\ C30_EndStep]_vars

\* The outer condition was zero and the inner one nonzero: the outer If went
\* past the nested Else to its own Else, the inner then-arm ran and its Else
\* went to the inner EndScope.
C30_Witness == IfInvoked(1, 0) /\ result = Some(<<I32(3)>>)

\* The results the driver takes from a frame that has finished with the
\* value stack `stack`: Ok with the values, or a stack underflow.
results_from(frame, stack) ==
  LET r == pop_values(frame.return_types, stack)
  IN [ok |-> r.ok, vals |-> IF r.ok THEN r.vals ELSE <<>>]

\* C31: a taken branch whose target is the function scope ends the function,
\* and the invocation finishes with the results that Return at the same
\* point would have produced: all of the declared results, in order.
C31_FunctionBranchIsReturn ==
  (br.kind = "taken" /\ br.target.scope_type = "Function") =>
    /\ top_frame.pc = Len(top_ops)
    /\ results_from(top_frame, top_frame.stack) =
         results_from(top_frame, br.before.stack)

\* C32: decoding the block type of a type index i gives
\* TypeSignature::Index(i), for every type index i, and an inline ValueType
\* is decoded only from a block type of one byte, of unit or a value type.
C32_BlockTypeIndex ==
  (probe.fn = "read_signature" /\ probe.applied) =>
    /\ \A i \in TypeIndices :
         probe.args[1] = block_type_index(i) =>
           probe.out = ReadOk(SigIdx(i), <<>>)
    /\ (probe.out.kind = "ok" /\ probe.out.val.kind = "vt") =>
         /\ Len(probe.args[1]) - Len(probe.out.rest) = 1
         /\ probe.args[1][1] \in ValueTypeBytes

\* The value a LEB128 encoding of k bytes stands for, as a u32: the seven
\* data bits of each byte, least significant group first.
encoded_value(bytes, k) ==
  LET low == [i \in 1 .. 4 |-> IF i <= k THEN bytes[i] % 128 ELSE 0]
      bits28 == low[1] + 128 * low[2] + 16384 * low[3] + 2097152 * low[4]
      top4 == IF k = 5 THEN bytes[5] % 16 ELSE 0
  IN << bits28 % WASM_PAGE_SIZE, bits28 \div WASM_PAGE_SIZE + 4096 * top4 >>

\* The position of the first byte without the continuation bit among the
\* first five, 0 if there is none.
final_byte(bytes) ==
  LET ends == { k \in 1 .. Min(5, Len(bytes)) : bytes[k] < 128 }
  IN IF ends = {} THEN 0 ELSE CHOOSE k \in ends : \A j \in ends : k <= j

\* C36: load_imm_varuint32 accepts exactly the encodings of at most five
\* bytes whose fifth byte sets no bit above bit 31, and returns the encoded
\* value; a final byte with bits above bit 31 is "integer too large", a
\* fifth byte that continues is "integer representation too long", and a
\* buffer that ends inside the encoding is an unexpected end.
C36_Varuint32 ==
  (probe.fn = "load_imm_varuint32" /\ probe.applied) =>
    LET bytes == probe.args[1]
        k == final_byte(bytes)
    IN IF k > 0 /\ (k = 5 => bytes[5] < 16)
       THEN probe.out = ReadOk(encoded_value(bytes, k),
                               SubSeq(bytes, k + 1, Len(bytes)))
       ELSE IF k = 5 THEN probe.out.kind = "integer too large"
       ELSE IF Len(bytes) >= 5
       THEN probe.out.kind = "integer representation too long"
       ELSE probe.out.kind = "unexpected end of section or function"

\* Five bytes whose last sets bit 31 are read as a value above 2^31, and a
\* byte is left in the buffer.
C36_Witness ==
  /\ probe.fn = "load_imm_varuint32" /\ probe.applied
  /\ probe.args[1] = <<255, 255, 255, 255, 15, 16>>
  /\ probe.out = ReadOk(<<65535, 65535>>, <<16>>)

\* A fifth byte with a bit above bit 31 is refused.
C36_WitnessTooLarge ==
  /\ probe.fn = "load_imm_varuint32" /\ probe.applied
  /\ probe.args[1] = <<128, 128, 128, 128, 16>>
  /\ probe.out.kind = "integer too large"

\* Every StartScope of ops from position i on is closed by a later EndScope
\* of its scope type, innermost first, and the only EndScope that closes
\* nothing is one EndScope(Program); stack holds the scopes open at i.
RECURSIVE well_nested(_, _, _, _)
well_nested(ops, i, stack, program_ended) ==
  IF i > Len(ops) THEN stack = <<>>
  ELSE IF ops[i].op = "StartScope"
  THEN well_nested(ops, i + 1, Append(stack, ops[i].st), program_ended)
  ELSE IF ops[i].op # "EndScope"
  THEN well_nested(ops, i + 1, stack, program_ended)
  ELSE IF stack # <<>>
  THEN /\ Last(stack) = ops[i].st
       /\ well_nested(ops, i + 1, Front(stack), program_ended)
  ELSE /\ ops[i].st = "Program"
       /\ ~program_ended
       /\ well_nested(ops, i + 1, stack, TRUE)

\* The scopes open after each instruction of a stream, the body counted as
\* one: -1 once an End had nothing to close.
RECURSIVE open_scopes(_, _)
open_scopes(stream, depth) ==
  IF stream = <<>> \/ depth < 0 THEN depth
  ELSE IF Head(stream).opcode \in {"Block", "Loop", "If"}
  THEN open_scopes(Tail(stream), depth + 1)
  ELSE IF Head(stream).opcode = "End"
  THEN open_scopes(Tail(stream), depth - 1)
  ELSE open_scopes(Tail(stream), depth)

\* C33: the ops of every stream that decode accepts are well nested, and a
\* stream with an End missing or an End too many is refused with a decode
\* error.
C33_DecodeWellNested ==
  (probe.fn = "decode" /\ probe.applied) =>
    /\ probe.out.kind = "ok" => well_nested(probe.out.ops, 1, <<>>, FALSE)
    /\ open_scopes(probe.args[1], 1) # 0 => probe.out.kind \notin {"ok", "panic"}

C34_PcInRange ==
  \A i \in 1 .. Len(frame_stack) :
    frame_stack[i].pc \in 0 .. Len(ops_of(frame_stack[i]))

C34_EndStep ==
  (InExecute /\ top_frame.pc = Len(top_ops)) =>
    (cont' = ProgramEnd /\ frame_stack' = frame_stack)

\* C34: the pc of every frame is between 0 and ops.len() in every state,
\* whatever branches, skipped if-arms and Else skips came before, and at
\* pc = ops.len() execute returns ProgramEnd and leaves the frame as it is.
C34_PcBounded == []C34_PcInRange /\ [][C34_EndStep]_vars

\* A taken branch has left pc at ops.len().
C34_Witness ==
  InExecute /\ br.kind = "taken" /\ top_frame.pc = Len(top_ops)

\* An Else skip has moved pc forward, to an EndScope(IfElse).
C34_WitnessElse ==
  /\ InExecute /\ top_frame.pc > 0 /\ top_frame.pc < Len(top_ops)
  /\ cur.op = "EndScope" /\ cur.st = "IfElse"
  /\ \E j \in 1 .. top_frame.pc - 1 : top_ops[j].op = "Else"

\* The init expression executes one of the given ops: the modelled
\* expressions that hold one reach it.
executes(expr, names) == \E i \in 1 .. Len(expr) : expr[i].op.op \in names

\* The init expression needs more ticks than EXPR_TICK_LIMIT: it is longer,
\* or it is one of the modelled expressions that loop for ever.
overruns(expr) ==
  \/ Len(expr) > EXPR_TICK_LIMIT
  \/ \E i \in 1 .. Len(expr) : expr[i].opcode = "Loop"

\* C35: when the init expression of a global executes a Call or a Return,
\* reads a global, or needs more than the expression tick limit,
\* mk_instance returns a link error and no instance is produced.
C35_ConstExprRestricted ==
  (probe.fn = "populate_globals" /\ probe.applied) =>
    ((\E i \in 1 .. Len(probe.args[1]) :
        \/ executes(probe.args[1][i].expr, {"Call", "Return", "GetGlobal"})
        \/ overruns(probe.args[1][i].expr))
     => (probe.out.kind = "ActiveExpressionError" /\ probe.out.globals = <<>>))

\* A second global whose init expression reads the first is refused.
C35_Witness ==
  /\ probe.fn = "populate_globals" /\ probe.applied
  /\ Len(probe.args[1]) = 2
  /\ probe.args[1][1].expr = << Raw(I32Const(5)) >>
  /\ probe.args[1][2].expr = << Raw(GetGlobal(0)) >>
  /\ probe.out.kind = "ActiveExpressionError"
  /\ probe.out.fault = "GlobalIndexOutOfBounds"

\* A loop that never ends is stopped by the tick limit.
C35_WitnessTicks ==
  /\ probe.fn = "populate_globals" /\ probe.applied
  /\ Len(probe.args[1]) = 1
  /\ overruns(probe.args[1][1].expr)
  /\ probe.out.kind = "ActiveExpressionError"
  /\ probe.out.fault = "OutOfTicks"

\* Two constant expressions give the two globals.
C35_WitnessInstance ==
  /\ probe.fn = "populate_globals" /\ probe.applied
  /\ probe.out.kind = "ok"
  /\ probe.out.globals = << I32(7), I32(5) >>

\* C37: TeeLocal(i) stores in local i the Value that SetLocal(i) would
\* store, the value on top of the stack, and leaves the value stack as it
\* was, for locals of type i32, i64, f32, f64, funcref and externref: a null
\* reference stays null.
C37_TeeLocalStoresTop ==
  (/\ probe.fn = "set_local_from_stack" /\ probe.applied
   /\ probe.args[3][1] \in {"I32", "I64", "F32", "F64"} \cup RefTypes) =>
    LET tee == probe.out[1]
        set == probe.out[2]
    IN /\ tee.fault = set.fault
       /\ tee.locals = set.locals
       /\ tee.stack = probe.args[2]
       /\ (tee.fault = "" /\ Last(probe.args[2]) = NULL_REF
             /\ probe.args[3][1] \in RefTypes)
            => tee.locals[1].v = <<>>

\* C38: prepare() with a function index at or beyond the imported plus the
\* defined functions returns FunctionNotFound, leaves the frame stack as it
\* was, and does not abort.
C38_PrepareFunctionNotFound ==
  (prep.kind = "done"
     /\ prep.funcidx >= Len(func_imports(M)) + Len(M.functions)) =>
    /\ prep.result = "FunctionNotFound"
    /\ phase # "aborted"
    /\ frame_stack = prep.frames

\* The function the last prepare() named, and the types of a sequence of
\* values.
invoked_function == local_type(M, Last(invoked))
types_of(vals) == [i \in 1 .. Len(vals) |-> type_of(vals[i])]

C39_OkStep ==
  (phase = "running" /\ phase' = "idle" /\ run_result' = "Ok") =>
    /\ frame_stack' = <<>>
    /\ result'.some
    /\ types_of(result'.vals) = invoked_function.results

C39_FirstResultStep ==
  (result = None /\ result' # None) => (phase' = "idle" /\ run_result' = "Ok")

\* C39: after run() returns Ok the frame stack is empty and result() holds
\* one value for each result the invoked function declares, of the declared
\* types and in their order; result() is None until a run() returns Ok.
C39_ResultAfterOk ==
  (result = None) /\ [][C39_OkStep /\ C39_FirstResultStep]_vars

C40_KeepsResultStep ==
  (\/ (phase = "running" /\ phase' = "idle" /\ run_result' # "Ok")
   \/ invoked' # invoked) =>
    result' = result

\* C40: a run() that returns a fault, and every prepare(), leave result()
\* as it was: after a faulting invocation it is still the results of the
\* last successful run, or None.
C40_FaultKeepsResult == [][C40_KeepsResultStep]_vars

\* A successful run has set the result and a later run has returned a fault.
C40_Witness == RunReturnedErr /\ result.some /\ Len(invoked) = 2

\* A prepare() after a successful run has been refused.
C40_WitnessPrepare ==
  /\ result.some /\ Len(invoked) = 2 /\ prep.kind = "done"
  /\ prep.result \notin {"Ok", "panic"}
====
